---- MODULE Spec2Model ----
(***************************************************************************)
(* Model of the profile-card pipeline of memo_bot (backend/profile_card.py *)
(* and backend/llm_integration.py): the confidence merge, the duplicate    *)
(* filter, the background handler that runs both and saves, and the        *)
(* profile repository.                                                     *)
(*                                                                         *)
(* Python dicts are functions whose domain is a set of strings, so that a  *)
(* key test is a DOMAIN test.  Confidences are exact rationals [n, d] in   *)
(* lowest terms (the code uses IEEE doubles; rounding is not modelled).    *)
(* time.time() is a logical clock that advances by one on every read.      *)
(***************************************************************************)
EXTENDS Integers, Sequences, FiniteSets, TLC

VARIABLES profile, stored, history, clock, last, asserted, calls, used,
          db, rounds, op, index, ctx, stream, resp, adds

vars ==
    <<profile, stored, history, clock, last, asserted, calls, used,
      db, rounds, op, index, ctx, stream, resp, adds>>

\* The variables of the document store shared by all users: the documents
\* by path, the chat rounds in flight, and the latest store operation.
storeVars == <<db, rounds, op>>

\* The variables of the context assembly: the episodes of the episodic
\* index and the latest context built; and the run of the completion
\* stream.
contextVars == <<index, ctx>>
streamVars == <<stream>>
flightVars == <<resp, adds>>

(***************************************************************************)
(* Bounds of the model.                                                    *)
(***************************************************************************)
MaxCalls == 4
MaxUpdates == 2

(***************************************************************************)
(* Exact rational arithmetic.                                              *)
(***************************************************************************)
Abs(a) == IF a < 0 THEN -a ELSE a

RECURSIVE GCD(_, _)
GCD(a, b) == IF b = 0 THEN a ELSE GCD(b, a % b)

Rat(n, d) ==
    LET g == GCD(Abs(n), Abs(d))
        s == IF d < 0 THEN -1 ELSE 1
    IN  [n |-> (s * n) \div g, d |-> (s * d) \div g]

Zero == Rat(0, 1)
One == Rat(1, 1)
RAdd(a, b) == Rat(a.n * b.d + b.n * a.d, a.d * b.d)
RMulInt(a, k) == Rat(a.n * k, a.d)
RDivInt(a, k) == Rat(a.n, a.d * k)
RLess(a, b) == a.n * b.d < b.n * a.d
RLeq(a, b) == a.n * b.d <= b.n * a.d

(***************************************************************************)
(* dict.get(k, default) and d[k] = v.                                      *)
(***************************************************************************)
Get(d, k, default) == IF k \in DOMAIN d THEN d[k] ELSE default
Put(d, k, v) == [x \in DOMAIN d \cup {k} |-> IF x = k THEN v ELSE d[x]]

(***************************************************************************)
(* create_default_profile_card.                                            *)
(***************************************************************************)
UserId == "u1"
EmptyFact == [value |-> "", confidence |-> Zero, count |-> 0, reasons |-> <<>>]
EmptyDict == [k \in {} |-> 0]

DefaultSections ==
    [demographics |->
        [name |-> EmptyFact, age |-> EmptyFact, gender |-> EmptyFact,
         location |-> EmptyFact],
     interests |->
        [primary_interests |-> EmptyDict, secondary_interests |-> EmptyDict],
     preferences |->
        [favorite_animals |-> EmptyDict, favorite_foods |-> EmptyDict,
         favorite_colors |-> EmptyDict, favorite_activities |-> EmptyDict],
     constraints |->
        [safety_limits |-> EmptyDict, schedule_limits |-> EmptyDict,
         health_limits |-> EmptyDict],
     goals |->
        [learning_goals |-> EmptyDict, personal_goals |-> EmptyDict],
     context |->
        [recent_events |-> EmptyDict, current_projects |-> EmptyDict],
     communication |->
        [style |-> EmptyFact, learning_level |-> EmptyFact,
         attention_span |-> EmptyFact,
         language_preference |->
            [value |-> "English", confidence |-> Rat(19, 20), count |-> 1,
             reasons |-> <<>>]]]

create_default_profile_card(user_id, now) ==
    [id |-> "profile_card",
     user_id |-> user_id,
     version |-> 1,
     sections |-> DefaultSections,
     metadata |-> [created_at |-> now, updated_at |-> now + 1,
                   last_consolidated |-> now + 2, total_facts |-> 0]]

(***************************************************************************)
(* The fields of the schema by kind: a scalar field holds one fact entry,  *)
(* a set field maps fact keys to entries.                                  *)
(***************************************************************************)
ScalarFields ==
    {<<s, f>> \in {<<s, f>> : s \in DOMAIN DefaultSections, f \in
                      {"name", "age", "gender", "location", "style",
                       "learning_level", "attention_span",
                       "language_preference"}} :
        f \in DOMAIN DefaultSections[s]}

SchemaFields ==
    UNION {{<<s, f>> : f \in DOMAIN DefaultSections[s]} :
              s \in DOMAIN DefaultSections}

SetFields == SchemaFields \ ScalarFields

HasField(sections, s, f) ==
    s \in DOMAIN sections /\ f \in DOMAIN sections[s]

(***************************************************************************)
(* count_total_facts.                                                      *)
(***************************************************************************)
FieldFacts(field_data) ==
    IF "value" \in DOMAIN field_data
    THEN IF field_data["value"] # "" THEN {"value"} ELSE {}
    ELSE DOMAIN field_data

count_total_facts(p) ==
    Cardinality(UNION {UNION {{<<s, f, k>> : k \in FieldFacts(p.sections[s][f])} :
                                 f \in DOMAIN p.sections[s]} :
                          s \in DOMAIN p.sections})

(***************************************************************************)
(* update_profile_with_confidence: one iteration of its loop, the loop,    *)
(* and the version bump.                                                   *)
(***************************************************************************)
HysteresisThreshold == Rat(1, 10)

ShouldReplace_NonStrict(new_confidence, old_confidence) ==
    RLeq(RAdd(old_confidence, HysteresisThreshold), new_confidence)

ShouldReplace(new_confidence, old_confidence) ==
    RLess(RAdd(old_confidence, HysteresisThreshold), new_confidence)

NewAvgConfidence_CountBefore(old_confidence, old_count, new_confidence) ==
    RDivInt(RAdd(RMulInt(old_confidence, old_count - 1), new_confidence),
            old_count)

NewAvgConfidence(old_confidence, old_count, new_confidence) ==
    RDivInt(RAdd(RMulInt(old_confidence, old_count), new_confidence),
            old_count + 1)

UpdateEntry(current, update, now) ==
    LET c1 == Put(current, "count", Get(current, "count", 0) + 1)
        old_confidence == Get(c1, "confidence", Zero)
        old_count == Get(c1, "count", 1)
        c2 == Put(c1, "confidence",
                  NewAvgConfidence(old_confidence, old_count,
                                   update.confidence))
        c3 == IF ShouldReplace(update.confidence, old_confidence)
              THEN Put(c2, "value", update.value)
              ELSE c2
        c4 == IF "reasons" \notin DOMAIN c3 THEN Put(c3, "reasons", <<>>)
              ELSE c3
    IN  Put(c4, "reasons",
            Append(c4["reasons"],
                   [reason |-> update.reason,
                    confidence |-> update.confidence,
                    timestamp |-> now]))

Applies(sections, update) == HasField(sections, update.section, update.field)

ApplyUpdate_Creating(sections, update, now) ==
    IF update.section \in DOMAIN sections
    THEN [sections EXCEPT ![update.section] =
              Put(@, update.field,
                  UpdateEntry(Get(@, update.field, EmptyDict), update, now))]
    ELSE sections

ApplyUpdate(sections, update, now) ==
    IF Applies(sections, update)
    THEN [sections EXCEPT ![update.section][update.field] =
              UpdateEntry(@, update, now)]
    ELSE sections

RECURSIVE MergeLoop(_, _, _, _)
MergeLoop(sections, updates, i, now) ==
    IF i > Len(updates) THEN [sections |-> sections, now |-> now]
    ELSE MergeLoop(ApplyUpdate(sections, updates[i], now), updates, i + 1,
                   IF Applies(sections, updates[i]) THEN now + 1 ELSE now)

BumpVersion_PerUpdate(version, updates) == version + Len(updates)

BumpVersion(version, updates) == version + 1

update_profile_with_confidence(p, updates, now) ==
    LET r == MergeLoop(p.sections, updates, 1, now)
    IN  [profile |-> [p EXCEPT !.sections = r.sections,
                               !.version = BumpVersion(p.version, updates)],
         now |-> r.now]

(***************************************************************************)
(* validate_updates.                                                       *)
(***************************************************************************)
IsDuplicate_Never(update, p) == FALSE

IsDuplicate(update, p) ==
    /\ HasField(p.sections, update.section, update.field)
    /\ LET current_value == p.sections[update.section][update.field]
       IN  IF "value" \in DOMAIN current_value
           THEN current_value["value"] = update.value
           ELSE update.value \in DOMAIN current_value

validate_updates(updates, p) ==
    LET Keep(u) == ~IsDuplicate(u, p)
    IN  SelectSeq(updates, Keep)

(***************************************************************************)
(* The profile repository: the document users/<uid>/meta/profile_card and  *)
(* the collection users/<uid>/profile_history keyed by version.  A store   *)
(* call can raise; the outcome is an input of the operation.               *)
(***************************************************************************)
NoCard ==
    [id |-> "none", user_id |-> "", version |-> 0, sections |-> EmptyDict,
     metadata |-> EmptyDict]

SaveOutcomes == {"ok", "set_fails", "version_fails"}
GetOutcomes == {"ok", "read_fails"}

save_profile_version(hist, p, outcome) ==
    IF outcome = "version_fails" THEN hist ELSE Put(hist, p.version, p)

save_profile_card_IfNewer(p, st, hist, now, outcome) ==
    LET p1 == [p EXCEPT !.metadata =
                   Put(Put(@, "updated_at", now), "total_facts",
                       count_total_facts(p))]
    IN  IF outcome = "set_fails" \/ st.version >= p.version
        THEN [profile |-> p1, stored |-> st, history |-> hist,
              now |-> now + 1, ok |-> FALSE]
        ELSE [profile |-> p1, stored |-> p1,
              history |-> save_profile_version(hist, p1, outcome),
              now |-> now + 1, ok |-> TRUE]

save_profile_card(p, st, hist, now, outcome) ==
    LET p1 == [p EXCEPT !.metadata =
                   Put(Put(@, "updated_at", now), "total_facts",
                       count_total_facts(p))]
    IN  IF outcome = "set_fails"
        THEN [profile |-> p1, stored |-> st, history |-> hist,
              now |-> now + 1, ok |-> FALSE]
        ELSE [profile |-> p1, stored |-> p1,
              history |-> save_profile_version(hist, p1, outcome),
              now |-> now + 1, ok |-> TRUE]

get_profile_card_NoPersist(user_id, st, hist, now, outcome, saveOutcome) ==
    IF outcome = "read_fails" \/ st.id = "none"
    THEN [profile |-> create_default_profile_card(user_id, now),
          stored |-> st, history |-> hist, now |-> now + 3,
          ok |-> outcome # "read_fails"]
    ELSE [profile |-> st, stored |-> st, history |-> hist, now |-> now,
          ok |-> TRUE]

get_profile_card(user_id, st, hist, now, outcome, saveOutcome) ==
    IF outcome = "read_fails"
    THEN [profile |-> create_default_profile_card(user_id, now),
          stored |-> st, history |-> hist, now |-> now + 3, ok |-> FALSE]
    ELSE IF st.id # "none"
         THEN [profile |-> st, stored |-> st, history |-> hist, now |-> now,
               ok |-> TRUE]
         ELSE save_profile_card(create_default_profile_card(user_id, now),
                                st, hist, now + 3, saveOutcome)

(***************************************************************************)
(* handle_profile_updates_background.  A proposed update as it arrives is  *)
(* [isdict, d]: whether the list item is a mapping, and the mapping.  Its  *)
(* confidence is [t, r, s]: a number r, a string s, None, or an integer    *)
(* beyond the range of a double.                                           *)
(***************************************************************************)
Num(r) == [t |-> "num", r |-> r, s |-> ""]
Str(s) == [t |-> "str", r |-> Zero, s |-> s]
None == [t |-> "none", r |-> Zero, s |-> ""]
BigInt == [t |-> "bigint", r |-> Zero, s |-> ""]

\* float(x): the converted number, or the exception raised.
float(c) ==
    CASE c.t = "num" -> [exc |-> "none", r |-> c.r]
      [] c.t = "str" ->
            IF c.s = "0.9" THEN [exc |-> "none", r |-> Rat(9, 10)]
            ELSE [exc |-> "ValueError", r |-> Zero]
      [] c.t = "none" -> [exc |-> "TypeError", r |-> Zero]
      [] OTHER -> [exc |-> "OverflowError", r |-> Zero]

required_fields == {"section", "field", "value", "confidence", "reason"}

valid_sections ==
    {"demographics", "interests", "preferences", "constraints", "goals",
     "context", "communication"}

InRange(confidence) == RLeq(Zero, confidence) /\ RLeq(confidence, One)

CheckUpdate_NoRange(update) ==
    IF ~update.isdict THEN "skip"
    ELSE IF ~(required_fields \subseteq DOMAIN update.d) THEN "skip"
    ELSE LET fl == float(update.d["confidence"])
         IN  IF fl.exc \in {"ValueError", "TypeError"} THEN "skip"
             ELSE IF fl.exc # "none" THEN "raise"
             ELSE IF update.d["section"] \notin valid_sections THEN "skip"
             ELSE "keep"

\* One iteration of the loop over the proposed updates: "skip" is a
\* continue, "keep" an append to valid_updates, "raise" an exception that
\* leaves the loop.
CheckUpdate(update) ==
    IF ~update.isdict THEN "skip"
    ELSE IF ~(required_fields \subseteq DOMAIN update.d) THEN "skip"
    ELSE LET fl == float(update.d["confidence"])
         IN  IF fl.exc \in {"ValueError", "TypeError"} THEN "skip"
             ELSE IF fl.exc # "none" THEN "raise"
             ELSE IF ~InRange(fl.r) THEN "skip"
             ELSE IF update.d["section"] \notin valid_sections THEN "skip"
             ELSE "keep"

Converted(update) ==
    [update.d EXCEPT !["confidence"] = float(update.d["confidence"]).r]

RECURSIVE ValidLoop(_, _, _)
ValidLoop(updates, i, valid_updates) ==
    IF i > Len(updates) THEN [raised |-> FALSE, valid |-> valid_updates]
    ELSE LET c == CheckUpdate(updates[i])
         IN  IF c = "raise" THEN [raised |-> TRUE, valid |-> valid_updates]
             ELSE IF c = "skip" THEN ValidLoop(updates, i + 1, valid_updates)
             ELSE ValidLoop(updates, i + 1,
                            Append(valid_updates, Converted(updates[i])))

Shapes == {"ok", "not_dict", "no_updates_key", "updates_not_list"}

\* The merge and the save run also when validate kept no update.
handle_profile_updates_background_AlwaysSave(p, st, hist, shape, updates, now, outcome) ==
    LET unchanged(valid, raised) ==
            [profile |-> p, stored |-> st, history |-> hist, now |-> now,
             valid |-> valid, validated |-> <<>>, merged |-> FALSE,
             raised |-> raised]
        vl == ValidLoop(updates, 1, <<>>)
        validated_updates == validate_updates(vl.valid, p)
        m == update_profile_with_confidence(p, validated_updates, now)
        sv == save_profile_card(m.profile, st, hist, m.now, outcome)
    IN  IF shape # "ok" THEN unchanged(<<>>, FALSE)
        ELSE IF vl.raised THEN unchanged(vl.valid, TRUE)
        ELSE IF vl.valid = <<>> THEN unchanged(<<>>, FALSE)
        ELSE [profile |-> sv.profile, stored |-> sv.stored,
              history |-> sv.history, now |-> sv.now, valid |-> vl.valid,
              validated |-> validated_updates, merged |-> TRUE,
              raised |-> FALSE]

handle_profile_updates_background(p, st, hist, shape, updates, now, outcome) ==
    LET unchanged(valid, raised) ==
            [profile |-> p, stored |-> st, history |-> hist, now |-> now,
             valid |-> valid, validated |-> <<>>, merged |-> FALSE,
             raised |-> raised]
        vl == ValidLoop(updates, 1, <<>>)
        validated_updates == validate_updates(vl.valid, p)
        m == update_profile_with_confidence(p, validated_updates, now)
        sv == save_profile_card(m.profile, st, hist, m.now, outcome)
    IN  IF shape # "ok" THEN unchanged(<<>>, FALSE)
        ELSE IF vl.raised THEN unchanged(vl.valid, TRUE)
        ELSE IF vl.valid = <<>> THEN unchanged(<<>>, FALSE)
        ELSE IF validated_updates = <<>> THEN unchanged(vl.valid, FALSE)
        ELSE [profile |-> sv.profile, stored |-> sv.stored,
              history |-> sv.history, now |-> sv.now, valid |-> vl.valid,
              validated |-> validated_updates, merged |-> TRUE,
              raised |-> FALSE]

(***************************************************************************)
(* Inputs.                                                                 *)
(***************************************************************************)
Upd(s, f, v, c) ==
    [section |-> s, field |-> f, value |-> v, confidence |-> c,
     reason |-> "stated by user"]

BatchesOver(S, n) == UNION {[1..k -> S] : k \in 0..n}

\* Updates handed to the merge and to the validator directly.
UnitTargets ==
    {<<"demographics", "name", "Alex">>,
     <<"demographics", "name", "Alexander">>,
     <<"preferences", "favorite_animals", "triceratops">>,
     <<"demographics", "nickname", "Al">>,
     <<"hobbies", "sports", "chess">>}

UnitConfs == {Rat(1, 10), Rat(9, 10), Rat(19, 20)}

UnitUpdates == {Upd(t[1], t[2], t[3], c) : t \in UnitTargets, c \in UnitConfs}

\* Profiles the calls start from: the default profile, and a profile with a
\* known name and one favourite animal as POST /api/profile-card stores it.
KnownProfile ==
    [create_default_profile_card(UserId, 0) EXCEPT
        !.sections.demographics.name =
            [value |-> "Alex", confidence |-> Rat(4, 5), count |-> 1,
             reasons |-> <<>>],
        !.sections.preferences.favorite_animals =
            [triceratops |->
                [confidence |-> Rat(9, 10), count |-> 2, reasons |-> <<>>]]]

StartProfiles == {create_default_profile_card(UserId, 0), KnownProfile}

\* Proposed updates as the completion provider can deliver them.
Dict(d) == [isdict |-> TRUE, d |-> d]
Raw(s, f, v, c) == Dict(Upd(s, f, v, c))

WellFormedRaw ==
    {Raw("demographics", "name", "Alex", Num(Rat(19, 20))),
     Raw("demographics", "name", "Alex", Num(Rat(1, 10))),
     Raw("preferences", "favorite_animals", "triceratops", Str("0.9")),
     Raw("demographics", "nickname", "Al", Num(Rat(19, 20)))}

MalformedRaw ==
    {[isdict |-> FALSE, d |-> EmptyDict],
     Dict([section |-> "demographics", field |-> "age", value |-> "8",
           confidence |-> Num(Rat(9, 10))]),
     Raw("demographics", "age", "8", Str("high")),
     Raw("demographics", "age", "8", None),
     Raw("demographics", "age", "8", Num(Rat(3, 2))),
     Raw("demographics", "age", "8", BigInt),
     Raw("hobbies", "sports", "chess", Num(Rat(19, 20)))}

RawUpdates == WellFormedRaw \cup MalformedRaw

(***************************************************************************)
(* State.  profile is the ProfileCard object in memory, stored the profile *)
(* document, history the version snapshots, clock the time.  last records  *)
(* the latest call: its name, its arguments, the profile it was given and  *)
(* what it computed (valid: the updates that passed the structural checks, *)
(* out: the validator's result, merged: whether the merge ran, merges: the *)
(* number of merge calls so far).  asserted holds the (section, field, value) triples   *)
(* that have gone through validate and merge.                              *)
(***************************************************************************)
Call(name, batch, shape, before, valid, out, merged, raised, merges) ==
    [op |-> name, batch |-> batch, shape |-> shape, before |-> before,
     valid |-> valid, out |-> out, merged |-> merged, raised |-> raised,
     asserted |-> asserted, now |-> clock, merges |-> merges]

Triples(updates) ==
    {<<updates[i].section, updates[i].field, updates[i].value>> :
        i \in DOMAIN updates}

NoCall == Call("init", <<>>, "ok", NoCard, <<>>, <<>>, FALSE, FALSE, 0)

\* The store variables at rest: no document, no round, no operation.
StoreOp(name, user, round, ok, before, card, outcome, saveOutcome) ==
    [name |-> name, user |-> user, round |-> round, ok |-> ok,
     before |-> before, profile |-> card, outcome |-> outcome,
     saveOutcome |-> saveOutcome]

NoOp ==
    [name |-> "init", user |-> "", round |-> 0, ok |-> TRUE,
     before |-> NoCard, profile |-> NoCard, outcome |-> "ok",
     saveOutcome |-> "ok"]

StoreIdle ==
    /\ db = EmptyDict
    /\ rounds = EmptyDict
    /\ op = NoOp

\* The context and stream variables at rest.
NoCtx == [name |-> "init"]
NoStream == [pc |-> "idle", yielded |-> <<>>]

ContextIdle ==
    /\ index = <<>>
    /\ ctx = NoCtx

StreamIdle == stream = NoStream

\* No response generator is running and no add_memory call is in flight.
NoResp == [pc |-> "idle"]

FlightIdle ==
    /\ resp = NoResp
    /\ adds = <<>>

Init ==
    /\ profile = NoCard
    /\ stored = NoCard
    /\ history = EmptyDict
    /\ clock = 0
    /\ asserted = {}
    /\ last = NoCall
    /\ calls = 0
    /\ used = 0
    /\ StoreIdle
    /\ ContextIdle
    /\ StreamIdle
    /\ FlightIdle

InitUnit ==
    /\ profile \in StartProfiles
    /\ stored = NoCard
    /\ history = EmptyDict
    /\ clock = 3
    /\ asserted = {}
    /\ last = Call("init", <<>>, "ok", profile, <<>>, <<>>, FALSE, FALSE, 0)
    /\ calls = 0
    /\ used = 0
    /\ StoreIdle
    /\ ContextIdle
    /\ StreamIdle
    /\ FlightIdle

(***************************************************************************)
(* A chat round reads the profile card, then hands the proposed updates of *)
(* the round to the background handler.                                    *)
(***************************************************************************)
GetProfileCard ==
    /\ calls < MaxCalls
    /\ \E outcome \in GetOutcomes, saveOutcome \in SaveOutcomes :
          \E r \in {get_profile_card(UserId, stored, history, clock,
                                     outcome, saveOutcome)} :
              /\ profile' = r.profile
              /\ stored' = r.stored
              /\ history' = r.history
              /\ clock' = r.now
              /\ last' = Call("get", <<>>, "ok", profile, <<>>, <<>>, FALSE,
                              FALSE, last.merges)
    /\ calls' = calls + 1
    /\ UNCHANGED <<asserted, used>>
    /\ UNCHANGED <<storeVars, contextVars, streamVars, flightVars>>

HandleProfileUpdatesBackground ==
    /\ calls < MaxCalls
    /\ last.op = "get"
    /\ \E shape \in Shapes, outcome \in SaveOutcomes,
          updates \in BatchesOver(RawUpdates, MaxUpdates - used) :
          /\ shape # "ok" => updates = <<>>
          /\ \E r \in {handle_profile_updates_background(
                            profile, stored, history, shape, updates, clock,
                            outcome)} :
              /\ profile' = r.profile
              /\ stored' = r.stored
              /\ history' = r.history
              /\ clock' = r.now
              /\ asserted' = IF r.merged
                               THEN asserted \cup Triples(r.validated)
                               ELSE asserted
              /\ last' = Call("handle", updates, shape, profile, r.valid,
                              r.validated, r.merged, r.raised,
                              IF r.merged THEN last.merges + 1
                              ELSE last.merges)
              /\ used' = used + Len(updates)
    /\ calls' = calls + 1
    /\ UNCHANGED <<storeVars, contextVars, streamVars, flightVars>>

Next == GetProfileCard \/ HandleProfileUpdatesBackground

Spec == Init /\ [][Next]_vars

(***************************************************************************)
(* The merge and the validator called directly on a profile object.        *)
(***************************************************************************)
UpdateProfileWithConfidence ==
    /\ calls < MaxCalls
    /\ \E updates \in BatchesOver(UnitUpdates, MaxUpdates - used) :
          \E r \in {update_profile_with_confidence(profile, updates, clock)} :
              /\ profile' = r.profile
              /\ clock' = r.now
              /\ last' = Call("merge", updates, "ok", profile, updates, <<>>,
                              TRUE, FALSE, last.merges + 1)
              /\ used' = used + Len(updates)
    /\ calls' = calls + 1
    /\ UNCHANGED <<stored, history, asserted>>
    /\ UNCHANGED <<storeVars, contextVars, streamVars, flightVars>>

ValidateUpdates ==
    /\ calls < MaxCalls
    /\ \E updates \in BatchesOver(UnitUpdates, MaxUpdates - used) :
          /\ last' = Call("validate", updates, "ok", profile, updates,
                          validate_updates(updates, profile), FALSE, FALSE,
                          last.merges)
          /\ used' = used + Len(updates)
    /\ calls' = calls + 1
    /\ UNCHANGED <<profile, stored, history, clock, asserted>>
    /\ UNCHANGED <<storeVars, contextVars, streamVars, flightVars>>

NextUnit == UpdateProfileWithConfidence \/ ValidateUpdates

SpecUnit == InitUnit /\ [][NextUnit]_vars

(***************************************************************************)
(* Properties.  Entry(p, u) is the field an update targets, OldConf and    *)
(* Count read it as the merge does.                                        *)
(***************************************************************************)
Entry(p, u) == p.sections[u.section][u.field]
ConfOf(entry) == Get(entry, "confidence", Zero)
CountOf(entry) == Get(entry, "count", 0)
Half(r) == Rat(r.n, 2 * r.d)
Plus(a, b) == Rat(a.n * b.d + b.n * a.d, a.d * b.d)
Above(a, b) == a.n * b.d > b.n * a.d
Within01(r) == r.n >= 0 /\ r.n <= r.d

\* The update at index i is the only one of the batch for its field.
Sole(batch, i) ==
    \A j \in DOMAIN batch :
        (batch[j].section = batch[i].section
         /\ batch[j].field = batch[i].field) => j = i

Known(p, u) == HasField(p.sections, u.section, u.field)

\* C1: every call of the merge raises profile.version by exactly 1,
\* whatever the size of the batch and however many of its updates matched
\* a known field; after N merge calls on a profile created at version 1
\* the version is 1 + N.
C1_VersionBump ==
    /\ (last.op = "merge") => profile.version = last.before.version + 1
    /\ (last.op = "validate") => profile.version = last.before.version
    /\ profile.version = 1 + last.merges

\* C1 witness: a second merge call whose batch of two has one update for a
\* known field and one for an unknown field.
C1_Witness ==
    /\ last.op = "merge"
    /\ last.merges >= 2
    /\ Len(last.batch) = 2
    /\ \E i, j \in DOMAIN last.batch :
          Known(last.before, last.batch[i]) /\ ~Known(last.before, last.batch[j])

\* C2: every update the merge applies to a known field sets the field's
\* confidence to the simple average (old_confidence + new_confidence) / 2,
\* whatever the field's count.
C2_SimpleAverage ==
    (last.op = "merge") =>
        \A i \in DOMAIN last.batch :
            (Known(last.before, last.batch[i]) /\ Sole(last.batch, i)) =>
                ConfOf(Entry(profile, last.batch[i])) =
                    Half(Plus(ConfOf(Entry(last.before, last.batch[i])),
                              last.batch[i].confidence))

\* C3: the merge replaces a field's value with the update's value if and
\* only if new_confidence > old_confidence + 0.1 (strict), old_confidence
\* being the confidence stored before the update; otherwise the value is
\* left as it was.
C3_ReplaceIffAboveThreshold ==
    (last.op = "merge") =>
        \A i \in DOMAIN last.batch :
            (Known(last.before, last.batch[i]) /\ Sole(last.batch, i)) =>
                LET u == last.batch[i]
                    old == Entry(last.before, u)
                    new == Entry(profile, u)
                IN  IF Above(u.confidence, Plus(ConfOf(old), Rat(1, 10)))
                    THEN "value" \in DOMAIN new /\ new["value"] = u.value
                    ELSE /\ ("value" \in DOMAIN new) = ("value" \in DOMAIN old)
                         /\ "value" \in DOMAIN old =>
                                new["value"] = old["value"]

\* C3 witness: one merge applied an update whose confidence is exactly the
\* stored confidence plus 0.1 and kept a different value, and an update
\* above that threshold whose value it took.
C3_Witness ==
    /\ last.op = "merge"
    /\ \E i, j \in DOMAIN last.batch :
          LET u == last.batch[i]
              w == last.batch[j]
          IN  /\ Known(last.before, u) /\ Sole(last.batch, i)
              /\ Known(last.before, w) /\ Sole(last.batch, j)
              /\ u.confidence = Plus(ConfOf(Entry(last.before, u)), Rat(1, 10))
              /\ "value" \in DOMAIN Entry(profile, u)
              /\ Entry(profile, u)["value"] # u.value
              /\ Above(w.confidence,
                       Plus(ConfOf(Entry(last.before, w)), Rat(1, 10)))
              /\ Get(Entry(last.before, w), "value", "") # w.value
              /\ Entry(profile, w)["value"] = w.value

AlexUpdate == Raw("demographics", "name", "Alex", Num(Rat(19, 20)))

AlexRound ==
    /\ last.op = "handle"
    /\ last.shape = "ok"
    /\ last.before.sections = DefaultSections
    /\ last.batch = <<AlexUpdate>>

\* C4: from the default profile, the single update {demographics, name,
\* "Alex", 0.95} run through validate and merge leaves demographics.name
\* with value "Alex", confidence 0.475, count 1 and one reasons entry, and
\* the version one above the initial version.
C4_EndToEnd ==
    AlexRound =>
        /\ profile.sections.demographics.name.value = "Alex"
        /\ profile.sections.demographics.name.confidence = Rat(475, 1000)
        /\ profile.sections.demographics.name.count = 1
        /\ Len(profile.sections.demographics.name.reasons) = 1
        /\ profile.version = last.before.version + 1

\* C4 witness: the round of the scenario has run on the default profile of
\* version 1.
C4_Witness == AlexRound /\ last.before.version = 1 /\ last.merged

\* C5: when the merge applies an update for a set field with a value that
\* is not yet a key of the set, the value becomes a key whose entry has the
\* update's confidence and count 1, and the keys already there are kept.
C5_SetFieldGainsKey ==
    (last.op = "merge") =>
        \A i \in DOMAIN last.batch :
            LET u == last.batch[i]
            IN  (/\ <<u.section, u.field>> \in SetFields
                 /\ Known(last.before, u)
                 /\ Sole(last.batch, i)
                 /\ u.value \notin DOMAIN Entry(last.before, u)) =>
                    /\ u.value \in DOMAIN Entry(profile, u)
                    /\ Entry(profile, u)[u.value].confidence = u.confidence
                    /\ Entry(profile, u)[u.value].count = 1
                    /\ DOMAIN Entry(last.before, u) \subseteq
                           DOMAIN Entry(profile, u)

\* An update is a duplicate when it targets a scalar field of the schema
\* whose value is the proposed value, or a set field of the schema that has
\* the proposed value as a key.
DuplicateBySchema(u, p) ==
    /\ Known(p, u)
    /\ \/ /\ <<u.section, u.field>> \in ScalarFields
          /\ "value" \in DOMAIN Entry(p, u)
          /\ Entry(p, u)["value"] = u.value
       \/ /\ <<u.section, u.field>> \in SetFields
          /\ u.value \in DOMAIN Entry(p, u)

NonDuplicates(updates, p) ==
    LET Fresh(u) == ~DuplicateBySchema(u, p)
    IN  SelectSeq(updates, Fresh)

\* C6: validate(updates, profile) returns, in their original order,
\* exactly the updates that are not duplicates: an update is dropped if it
\* targets a scalar field whose value equals the proposed value or a set
\* field that has the proposed value as a key, and kept otherwise.
C6_ValidateDropsExactlyDuplicates ==
    (last.op = "validate") =>
        last.out = NonDuplicates(last.batch, last.before)

\* The updates of the handler's batch that target the field (s, f), among
\* those that passed the structural checks.
Targeting(s, f) ==
    {i \in DOMAIN last.valid :
        last.valid[i].section = s /\ last.valid[i].field = f}

Reasserted(s, f) ==
    /\ HasField(last.before.sections, s, f)
    /\ Targeting(s, f) # {}
    /\ \A i \in Targeting(s, f) :
          <<s, f, last.valid[i].value>> \in last.asserted

Adopted(s, f) ==
    \A i \in Targeting(s, f) :
        LET cur == last.before.sections[s][f]
        IN  IF "value" \in DOMAIN cur
            THEN cur["value"] = last.valid[i].value
            ELSE last.valid[i].value \in DOMAIN cur

FieldUntouched(s, f) ==
    /\ CountOf(profile.sections[s][f]) = CountOf(last.before.sections[s][f])
    /\ ConfOf(profile.sections[s][f]) = ConfOf(last.before.sections[s][f])

\* C7 as stated: once an update for a field has gone through validate and
\* merge, running the same update (same section, field and value, any
\* confidence) through validate and merge on a later turn leaves the
\* field's count and confidence unchanged.
C7_NoInflation ==
    (last.op = "handle") =>
        \A q \in SchemaFields :
            Reasserted(q[1], q[2]) => FieldUntouched(q[1], q[2])

\* C7 as amended: once an update for a field has gone through validate and
\* merge and the profile read by the round holds the update's value as the
\* value of the field, running the same update through validate and merge
\* leaves the field's count and confidence unchanged.
C7_NoInflationOnceAdopted ==
    (last.op = "handle") =>
        \A q \in SchemaFields :
            (Reasserted(q[1], q[2]) /\ Adopted(q[1], q[2])) =>
                FieldUntouched(q[1], q[2])

\* C7 witness: a later round re-asserted a value that an earlier round had
\* merged and the field had adopted.
C7_Witness ==
    /\ last.op = "handle"
    /\ \E q \in SchemaFields :
          /\ Reasserted(q[1], q[2])
          /\ Adopted(q[1], q[2])
          /\ CountOf(last.before.sections[q[1]][q[2]]) >= 1

\* What makes a proposed update well formed: it is a mapping, it has the
\* five required keys, its confidence is a number within [0, 1], and its
\* section is one of the seven sections.
NumericConfidence(c) == c.t \in {"num", "bigint"} \/ (c.t = "str" /\ c.s = "0.9")
ConfidenceValue(c) == IF c.t = "str" THEN Rat(9, 10) ELSE c.r

WellFormed(item) ==
    /\ item.isdict
    /\ {"section", "field", "value", "confidence", "reason"} \subseteq
          DOMAIN item.d
    /\ NumericConfidence(item.d["confidence"])
    /\ item.d["confidence"].t # "bigint"
    /\ Within01(ConfidenceValue(item.d["confidence"]))
    /\ item.d["section"] \in DOMAIN DefaultSections

WellFormedUpdates(batch) ==
    LET all == [i \in DOMAIN batch |->
                   IF WellFormed(batch[i])
                   THEN [batch[i].d EXCEPT !["confidence"] =
                             ConfidenceValue(batch[i].d["confidence"])]
                   ELSE batch[i].d]
        Good(i) == WellFormed(batch[i])
        idx == SelectSeq([i \in DOMAIN batch |-> i], Good)
    IN  [k \in DOMAIN idx |-> all[idx[k]]]

\* C8: in handle_profile_updates_background a malformed update is dropped
\* on its own: the updates handed to the merge are the well-formed updates
\* of the batch that validate keeps, whatever the position of the
\* malformed ones, and the merge and save run whenever there is one.
C8_MalformedDroppedAlone ==
    (last.op = "handle" /\ last.shape = "ok") =>
        LET expected == validate_updates(WellFormedUpdates(last.batch),
                                         last.before)
        IN  /\ last.out = expected
            /\ last.merged = (expected # <<>>)

\* C9: no proposed update with a confidence outside [0, 1] reaches the
\* merge, and every fact entry of the profile in memory and of the stored
\* profile has a confidence within [0, 1] and a count of at least 0.
C9_ConfidenceInRange ==
    /\ (last.op = "handle" /\ last.merged) =>
          \A i \in DOMAIN last.out : Within01(last.out[i].confidence)
    /\ \A p \in {profile, stored} :
          \A s \in DOMAIN p.sections :
              \A f \in DOMAIN p.sections[s] :
                  /\ Within01(ConfOf(p.sections[s][f]))
                  /\ CountOf(p.sections[s][f]) >= 0

\* C9 witness: a round whose batch held an update with a numeric
\* confidence outside [0, 1] merged the rest of the batch.
C9_Witness ==
    /\ last.op = "handle"
    /\ last.merged
    /\ \E i \in DOMAIN last.batch :
          /\ last.batch[i].isdict
          /\ required_fields \subseteq DOMAIN last.batch[i].d
          /\ last.batch[i].d["confidence"].t = "num"
          /\ ~Within01(last.batch[i].d["confidence"].r)

KnownOnly(updates, p) ==
    LET K(u) == Known(p, u)
    IN  SelectSeq(updates, K)

\* C10: an update whose (section, field) pair does not exist in the
\* profile is ignored by the merge: no section and no field is created,
\* and the sections end as the merge of the other updates of the batch
\* alone leaves them.
C10_UnknownPairIgnored ==
    (last.op = "merge") =>
        /\ DOMAIN profile.sections = DOMAIN last.before.sections
        /\ \A s \in DOMAIN profile.sections :
              DOMAIN profile.sections[s] = DOMAIN last.before.sections[s]
        /\ profile.sections =
              MergeLoop(last.before.sections,
                        KnownOnly(last.batch, last.before), 1,
                        last.now).sections

\* C10 witness: a merge of a batch with an update for an unknown pair and
\* an update for a known field, which changed the sections.
C10_Witness ==
    /\ last.op = "merge"
    /\ \E i, j \in DOMAIN last.batch :
          /\ ~Known(last.before, last.batch[i])
          /\ Known(last.before, last.batch[j])
    /\ profile.sections # last.before.sections

\* C11: the merge preserves the schema of the profile: after any sequence
\* of merge calls with arbitrary updates the profile has exactly the section
\* names of the default profile, and every section exactly the field names
\* it has in the default profile; no section or field is added, removed or
\* moved.
C11_SchemaPreserved ==
    /\ DOMAIN profile.sections = DOMAIN DefaultSections
    /\ \A s \in DOMAIN DefaultSections :
          DOMAIN profile.sections[s] = DOMAIN DefaultSections[s]

\* A second merge in a row whose batch names a pair outside the schema,
\* after which the profile is another one than before.
C11_Witness ==
    /\ last.op = "merge"
    /\ last.merges >= 2
    /\ \E i \in DOMAIN last.batch : ~Known(last.before, last.batch[i])
    /\ profile # last.before

(***************************************************************************)
(* The document store shared by all users.  db maps the path of a document *)
(* or of a collection to what it holds: the profile document holds a       *)
(* profile card, the profile_history collection the snapshots by version,  *)
(* the memories collection the memory items by document id, the messages   *)
(* collection the logged messages in the order of their writes.            *)
(***************************************************************************)
Users == {"u1", "u2"}

_get_profile_ref_Shared(user_id) == <<"users", "profile_card">>

_get_profile_ref(user_id) == <<"users", user_id, "meta", "profile_card">>

HistoryRef(user_id) == <<"users", user_id, "profile_history">>

_user_refs(uid) ==
    [user |-> <<"users", uid>>,
     memories |-> <<"users", uid, "memories">>,
     messages |-> <<"users", uid, "messages">>,
     profile |-> <<"users", uid, "meta", "profile">>]

_get_memories_collection(uid) == <<"users", uid, "memories">>

\* ref.set(doc); an absent document reads as the default.
SetDoc(d, ref, doc, default) ==
    IF Get(d, ref, default) = doc THEN d ELSE Put(d, ref, doc)

ReadCard(d, user_id) == Get(d, _get_profile_ref(user_id), NoCard)
ReadHistory(d, user_id) == Get(d, HistoryRef(user_id), EmptyDict)
ReadMemories(d, uid) == Get(d, _user_refs(uid).memories, EmptyDict)
ReadMessages(d, uid) == Get(d, _user_refs(uid).messages, <<>>)

WriteCard(d, user_id, card, hist) ==
    SetDoc(SetDoc(d, _get_profile_ref(user_id), card, NoCard),
           HistoryRef(user_id), hist, EmptyDict)

\* get_profile_card, save_profile_card and the background handler on the
\* documents of one user.  The result r of the call is computed once.
StoreGet(d, user_id, now, outcome, saveOutcome) ==
    CHOOSE out \in
        {[db |-> WriteCard(d, user_id, r.stored, r.history),
          profile |-> r.profile, now |-> r.now, ok |-> r.ok] :
            r \in {get_profile_card(user_id, ReadCard(d, user_id),
                                    ReadHistory(d, user_id), now, outcome,
                                    saveOutcome)}} : TRUE

StoreSave(d, user_id, p, now, outcome) ==
    CHOOSE out \in
        {[db |-> WriteCard(d, user_id, r.stored, r.history),
          profile |-> r.profile, now |-> r.now, ok |-> r.ok] :
            r \in {save_profile_card(p, ReadCard(d, user_id),
                                     ReadHistory(d, user_id), now,
                                     outcome)}} : TRUE

StoreHandle(d, user_id, profile_card, shape, updates, now, outcome) ==
    CHOOSE out \in
        {[db |-> WriteCard(d, user_id, r.stored, r.history),
          profile |-> r.profile, now |-> r.now, validated |-> r.validated,
          merged |-> r.merged,
          ok |-> r.merged /\ outcome # "set_fails"] :
            r \in {handle_profile_updates_background(
                       profile_card, ReadCard(d, user_id),
                       ReadHistory(d, user_id), shape, updates, now,
                       outcome)}} : TRUE

\* dict.update(other).
DictUpdate(d, other) ==
    [k \in DOMAIN d \cup DOMAIN other |->
        IF k \in DOMAIN other THEN other[k] ELSE d[k]]

(***************************************************************************)
(* POST /api/profile-card: read the card, overwrite the named sections'    *)
(* fields with the payload's, save.                                        *)
(***************************************************************************)
api_update_profile_card(d, uid, payload, now, outcome, saveOutcome, finalOutcome) ==
    LET Sections(g) ==
            IF "sections" \in DOMAIN payload
            THEN [section_name \in DOMAIN g.profile.sections |->
                     IF section_name \in DOMAIN payload["sections"]
                     THEN DictUpdate(g.profile.sections[section_name],
                                     payload["sections"][section_name])
                     ELSE g.profile.sections[section_name]]
            ELSE g.profile.sections
    IN  CHOOSE out \in
            {StoreSave(g.db, uid, [g.profile EXCEPT !.sections = Sections(g)],
                       g.now, finalOutcome) :
                g \in {StoreGet(d, uid, now, outcome, saveOutcome)}} : TRUE

(***************************************************************************)
(* Memory items and messages (firestore_store.py), consolidation           *)
(* (firestore.py).                                                         *)
(***************************************************************************)
RMul(a, b) == Rat(a.n * b.n, a.d * b.d)
RMin(a, b) == IF RLeq(a, b) THEN a ELSE b
RMax(a, b) == IF RLeq(a, b) THEN b ELSE a

\* round(x, 6).
Round6(r) == Rat((2 * r.n * 1000000 + r.d) \div (2 * r.d), 1000000)

\* _slug on the keys of the model: lower case, every run of characters
\* other than a-z and 0-9 replaced by "-", leading and trailing "-" removed.
_slug(s) ==
    CASE s = "likes_dinosaurs" -> "likes-dinosaurs"
      [] s = "Likes Dinosaurs!" -> "likes-dinosaurs"
      [] s = "language" -> "language"
      [] s = "" -> ""

\* add_memory of firestore_store in its two store calls.  The first part
\* (lines 38-47) ends with the read of the document, the second (49-68)
\* with its write; nothing makes the two one transaction.
add_memory_get(d, uid, item, now) ==
    LET refs == _user_refs(uid)
        mtype == Get(item, "type", "semantic")
        key == Get(item, "key", "")
        confidence == float(Get(item, "confidence", Num(Rat(9, 10))))
        salience == float(Get(item, "salience", Num(One)))
        doc_id == mtype \o ":" \o (IF _slug(key) = "" THEN "key" ELSE _slug(key))
    IN  [exc |-> IF confidence.exc # "none" THEN confidence.exc
                 ELSE salience.exc,
         mtype |-> mtype, key |-> key, value |-> Get(item, "value", ""),
         confidence |-> confidence.r, salience |-> salience.r,
         ts |-> Get(item, "ts", now), doc_id |-> doc_id,
         cur |-> Get(Get(d, refs.memories, EmptyDict), doc_id, EmptyDict),
         now |-> now + 1]

add_memory_set(d, uid, g, now) ==
    LET refs == _user_refs(uid)
        cur == g.cur
        same == /\ cur # EmptyDict
                /\ Get(cur, "value", "") = g.value
                /\ Get(cur, "type", "") = g.mtype
        salience1 == IF same
                     THEN RMin(RAdd(Get(cur, "salience", One), Rat(1, 5)),
                               Rat(10, 1))
                     ELSE g.salience
        confidence1 == IF same
                       THEN RMax(Get(cur, "confidence", Rat(9, 10)),
                                 g.confidence)
                       ELSE g.confidence
        data == DictUpdate(cur,
                    [type |-> g.mtype, key |-> g.key, value |-> g.value,
                     confidence |-> confidence1, salience |-> salience1,
                     ts |-> IF cur # EmptyDict THEN Get(cur, "ts", g.ts)
                            ELSE g.ts,
                     updated_at |-> now,
                     score |-> Round6(RMul(salience1, confidence1))])
    IN  [db |-> SetDoc(d, refs.memories,
                       Put(Get(d, refs.memories, EmptyDict), g.doc_id, data),
                       EmptyDict),
         now |-> now + 1, ok |-> TRUE]

\* add_memory in one piece: no other request between the read and the write.
add_memory(d, uid, item, now) ==
    CHOOSE out \in
        {IF g.exc # "none"
         THEN [db |-> d, now |-> now, ok |-> FALSE]
         ELSE add_memory_set(d, uid, g, g.now) :
            g \in {add_memory_get(d, uid, item, now)}} : TRUE

log_message(d, uid, role, content, now) ==
    LET refs == _user_refs(uid)
        doc == [role |-> role, content |-> content, ts |-> now]
    IN  [db |-> Put(d, refs.messages,
                    Append(Get(d, refs.messages, <<>>), doc)),
         now |-> now + 1, ok |-> TRUE]

promotion_threshold == 3

\* The oldest item of a key is promoted instead of the most recent one.
consolidate_memories_Oldest(d, uid, threshold) ==
    LET memories_ref == _get_memories_collection(uid)
        coll == Get(d, memories_ref, EmptyDict)
        episodic_docs == {id \in DOMAIN coll : coll[id]["type"] = "episodic"}
        keys == {coll[id]["key"] : id \in episodic_docs} \ {""}
        key_counts(key) ==
            Cardinality({id \in episodic_docs : coll[id]["key"] = key})
        key_docs(key) ==
            CHOOSE id \in episodic_docs :
                /\ coll[id]["key"] = key
                /\ \A other \in episodic_docs :
                      coll[other]["key"] = key
                          => coll[id]["ts"] <= coll[other]["ts"]
        promoted == {key \in keys : key_counts(key) >= threshold}
        updated ==
            [id \in DOMAIN coll |->
                IF \E key \in promoted : id = key_docs(key)
                THEN DictUpdate(coll[id],
                         [type |-> "semantic",
                          salience |->
                              RMin(One,
                                   Rat(key_counts(coll[id]["key"]), 10))])
                ELSE coll[id]]
    IN  [db |-> SetDoc(d, memories_ref, updated, EmptyDict),
         promoted_count |-> Cardinality(promoted),
         total_episodic |-> Cardinality(episodic_docs)]

\* consolidate_memories of firestore.py: the episodic items are counted by
\* key, items without a key left out; for every key counted at least
\* threshold times the most recent episodic item of the key is promoted.
consolidate_memories(d, uid, threshold) ==
    LET memories_ref == _get_memories_collection(uid)
        coll == Get(d, memories_ref, EmptyDict)
        episodic_docs == {id \in DOMAIN coll : coll[id]["type"] = "episodic"}
        keys == {coll[id]["key"] : id \in episodic_docs} \ {""}
        key_counts(key) ==
            Cardinality({id \in episodic_docs : coll[id]["key"] = key})
        key_docs(key) ==
            CHOOSE id \in episodic_docs :
                /\ coll[id]["key"] = key
                /\ \A other \in episodic_docs :
                      coll[other]["key"] = key
                          => coll[other]["ts"] <= coll[id]["ts"]
        promoted == {key \in keys : key_counts(key) >= threshold}
        updated ==
            [id \in DOMAIN coll |->
                IF \E key \in promoted : id = key_docs(key)
                THEN DictUpdate(coll[id],
                         [type |-> "semantic",
                          salience |->
                              RMin(One,
                                   Rat(key_counts(coll[id]["key"]), 10))])
                ELSE coll[id]]
    IN  [db |-> SetDoc(d, memories_ref, updated, EmptyDict),
         promoted_count |-> Cardinality(promoted),
         total_episodic |-> Cardinality(episodic_docs)]

(***************************************************************************)
(* The store under concurrent requests of several users.  A chat round is  *)
(* two steps: it reads the profile card when the request arrives and hands *)
(* the round's proposed updates, with the card it read, to the background  *)
(* handler after the stream; the steps of different rounds interleave.     *)
(* rounds[r] is the round's user, its position, the card object it holds,  *)
(* the card as it was read, whether the read degraded, the sequence        *)
(* numbers of its two steps, the time of its merge, the updates it merged  *)
(* and the card it wrote.                                                  *)
(***************************************************************************)
MaxOps == 4
MaxUserOps == 3
MaxFaults == 1
MaxRounds == MaxOps \div 2

RawAlex == Raw("demographics", "name", "Alex", Num(Rat(19, 20)))
RawAge == Raw("demographics", "age", "8", Num(Rat(9, 10)))
RawAnimal ==
    Raw("preferences", "favorite_animals", "triceratops", Str("0.9"))

RoundBatches == {<<RawAlex>>, <<RawAge>>}

Payloads ==
    {[sections |->
         [demographics |->
             [name |-> [value |-> "Sam", confidence |-> Rat(4, 5),
                        count |-> 1, reasons |-> <<>>]]]]}

MemoryItems ==
    {[type |-> "episodic", key |-> "likes_dinosaurs", value |-> "yes"],
     [key |-> "Likes Dinosaurs!", value |-> "yes",
      confidence |-> Num(Rat(1, 2))]}

LogInputs == {<<"user", "hi">>}

\* A store in which u1 has completed two chat rounds, one after the other,
\* and has added a memory item.
CompletedRound(s, user_id, updates) ==
    LET logged == {log_message(t.db, user_id, "user", "hi", t.now) : t \in {s}}
        read == {StoreGet(m.db, user_id, m.now, "ok", "ok") : m \in logged}
        replied ==
            {[profile |-> g.profile,
              a |-> log_message(g.db, user_id, "assistant", "Roaaary!",
                                g.now)] : g \in read}
        handled ==
            {StoreHandle(x.a.db, user_id, x.profile, "ok", updates, x.a.now,
                         "ok") : x \in replied}
    IN  CHOOSE out \in {[db |-> h.db, now |-> h.now] : h \in handled} : TRUE

SeededStore ==
    CHOOSE out \in
        {[db |-> m.db, now |-> m.now] :
            m \in {add_memory(s.db, "u1",
                              [type |-> "episodic", key |-> "likes_dinosaurs",
                               value |-> "yes"], s.now) :
                      s \in {CompletedRound(t, "u1", <<RawAnimal>>) :
                                t \in {CompletedRound(
                                           [db |-> EmptyDict, now |-> 0],
                                           "u1", <<RawAlex>>)}}}} : TRUE

StartStores == {[db |-> EmptyDict, now |-> 0], SeededStore}

InitStore ==
    /\ \E s \in StartStores : db = s.db /\ clock = s.now
    /\ rounds = EmptyDict
    /\ op = NoOp
    /\ profile = NoCard
    /\ stored = NoCard
    /\ history = EmptyDict
    /\ asserted = {}
    /\ last = NoCall
    /\ calls = 0
    /\ used = 0
    /\ ContextIdle
    /\ StreamIdle
    /\ FlightIdle

cardVars == <<profile, stored, history, last, asserted>>

\* The number of store calls of a step that fail.
Faults(outcomes) == Cardinality({i \in DOMAIN outcomes : outcomes[i] # "ok"})

Step(faults) ==
    /\ calls < MaxOps
    /\ used + faults <= MaxFaults
    /\ calls' = calls + 1
    /\ used' = used + faults
    /\ UNCHANGED <<cardVars, contextVars, streamVars, flightVars>>

RoundRead(u) ==
    /\ Cardinality(DOMAIN rounds) < MaxRounds
    /\ \E outcome \in GetOutcomes, saveOutcome \in SaveOutcomes :
          /\ (outcome = "read_fails" \/ ReadCard(db, u) # NoCard)
                 => saveOutcome = "ok"
          /\ Step(Faults(<<outcome, saveOutcome>>))
          /\ \E g \in {StoreGet(db, u, clock, outcome, saveOutcome)} :
                LET r == Cardinality(DOMAIN rounds) + 1
                IN  /\ db' = g.db
                    /\ clock' = g.now
                    /\ rounds' =
                          Put(rounds, r,
                              [user |-> u, pc |-> "read", card |-> g.profile,
                               read |-> g.profile, degraded |-> ~g.ok,
                               readAt |-> calls + 1, savedAt |-> 0,
                               mergedAt |-> 0, validated |-> <<>>,
                               written |-> NoCard, saved |-> FALSE])
                    /\ op' = StoreOp("read", u, r, g.ok, ReadCard(db, u),
                                     g.profile, outcome, saveOutcome)

RoundUpdate(r) ==
    /\ r \in DOMAIN rounds
    /\ rounds[r].pc = "read"
    /\ \E updates \in RoundBatches, outcome \in SaveOutcomes :
          /\ Step(Faults(<<outcome>>))
          /\ \E h \in {StoreHandle(db, rounds[r].user, rounds[r].card, "ok",
                                   updates, clock, outcome)} :
              /\ db' = h.db
              /\ clock' = h.now
              /\ rounds' =
                    [rounds EXCEPT
                        ![r] = [@ EXCEPT !.pc = "done", !.card = h.profile,
                                         !.savedAt = calls + 1,
                                         !.mergedAt = clock,
                                         !.validated = h.validated,
                                         !.written = IF h.ok THEN h.profile
                                                     ELSE NoCard,
                                         !.saved = h.ok]]
              /\ op' = StoreOp("update", rounds[r].user, r, h.ok,
                               ReadCard(db, rounds[r].user), h.profile, "ok",
                               outcome)

ApiUpdateProfileCard(u) ==
    \E payload \in Payloads, outcome \in GetOutcomes,
       saveOutcome \in SaveOutcomes, finalOutcome \in SaveOutcomes :
        /\ (outcome = "read_fails" \/ ReadCard(db, u) # NoCard)
               => saveOutcome = "ok"
        /\ Step(Faults(<<outcome, saveOutcome, finalOutcome>>))
        /\ \E s \in {api_update_profile_card(db, u, payload, clock, outcome,
                                             saveOutcome, finalOutcome)} :
              /\ db' = s.db
              /\ clock' = s.now
              /\ op' = StoreOp("api_update", u, 0, s.ok, ReadCard(db, u),
                               s.profile, outcome, finalOutcome)
        /\ UNCHANGED rounds

AddMemory(u) ==
    /\ Step(0)
    /\ \E item \in MemoryItems :
          \E s \in {add_memory(db, u, item, clock)} :
              /\ db' = s.db
              /\ clock' = s.now
              /\ op' = StoreOp("add_memory", u, 0, s.ok, ReadCard(db, u),
                               NoCard, "ok", "ok")
    /\ UNCHANGED rounds

LogMessage(u) ==
    /\ Step(0)
    /\ \E m \in LogInputs :
          \E s \in {log_message(db, u, m[1], m[2], clock)} :
              /\ db' = s.db
              /\ clock' = s.now
              /\ op' = StoreOp("log_message", u, 0, s.ok, ReadCard(db, u),
                               NoCard, "ok", "ok")
    /\ UNCHANGED rounds

ConsolidateMemories(u) ==
    /\ Step(0)
    /\ \E s \in {consolidate_memories(db, u, promotion_threshold)} :
          /\ db' = s.db
          /\ op' = StoreOp("consolidate", u, 0, TRUE, ReadCard(db, u),
                           NoCard, "ok", "ok")
    /\ UNCHANGED <<rounds, clock>>

NextStore ==
    \/ \E u \in Users : RoundRead(u)
    \/ \E r \in 1..MaxRounds : RoundUpdate(r)
    \/ \E u \in Users : ApiUpdateProfileCard(u)

SpecStore == InitStore /\ [][NextStore]_vars

\* The requests of all kinds of several users, for a shorter run.
NextUsers ==
    /\ calls < MaxUserOps
    /\ \/ \E u \in Users : RoundRead(u)
       \/ \E r \in 1..MaxRounds : RoundUpdate(r)
       \/ \E u \in Users : ApiUpdateProfileCard(u)
       \/ \E u \in Users : AddMemory(u)
       \/ \E u \in Users : LogMessage(u)
       \/ \E u \in Users : ConsolidateMemories(u)

SpecUsers == InitStore /\ [][NextUsers]_vars

(***************************************************************************)
(* Properties of the store.                                                *)
(***************************************************************************)
StoredVersion(d, u) == ReadCard(d, u).version

\* C12: a history snapshot is immutable: once the snapshot for version n of
\* a user's profile has been written, no later operation (a chat round's
\* save, a manual update through POST /api/profile-card, a first-access
\* creation, a concurrent round of the same user) changes what is stored
\* under version n.
C12_SnapshotImmutable ==
    [][\A u \in Users :
          \A n \in DOMAIN ReadHistory(db, u) :
              /\ n \in DOMAIN ReadHistory(db', u)
              /\ ReadHistory(db', u)[n] = ReadHistory(db, u)[n]]_vars

\* C13: for every user the version of the stored profile never decreases,
\* under any interleaving of the chat rounds of that user, rounds whose
\* profile read degraded to the default profile included.
C13_VersionNeverDecreases ==
    [][op'.name \in {"read", "update"}
          => \A u \in Users : StoredVersion(db', u) >= StoredVersion(db, u)]_vars

\* Rounds r1 and r2 of one user both read before either saved, r1 saved
\* first, and r2's save is the step just taken.
Raced(r1, r2) ==
    /\ r1 # r2
    /\ rounds[r1].user = rounds[r2].user
    /\ rounds[r1].saved /\ rounds[r2].saved
    /\ rounds[r1].readAt < rounds[r1].savedAt
    /\ rounds[r2].readAt < rounds[r1].savedAt
    /\ rounds[r1].savedAt < rounds[r2].savedAt
    /\ op.name = "update" /\ op.round = r2

\* C14: saves are last-writer-wins: when two chat rounds of one user both
\* read the profile before either saves, the stored profile after both saves
\* is exactly the profile the later save wrote: the merge of the later
\* round's updates into the card that round read, one version above it; what
\* the earlier round applied is not in it, and the snapshot of that version
\* is the later round's too.
C14_LastWriterWins ==
    \A r1 \in DOMAIN rounds, r2 \in DOMAIN rounds :
        Raced(r1, r2) =>
            LET u == rounds[r2].user
                later == rounds[r2]
                merge == update_profile_with_confidence(
                             later.read, later.validated, later.mergedAt)
            IN  /\ ReadCard(db, u) = later.written
                /\ ReadCard(db, u).sections = merge.profile.sections
                /\ ReadCard(db, u).version = later.read.version + 1
                /\ \A i \in DOMAIN rounds[r1].validated :
                      LET e == rounds[r1].validated[i]
                      IN  Entry(ReadCard(db, u), e)
                              # Entry(rounds[r1].written, e)
                /\ op.saveOutcome = "ok"
                      => ReadHistory(db, u)[later.written.version]
                             = later.written

\* A lost update: the earlier round stored a name, the later one an age, and
\* the stored profile has the age and no name.
C14_Witness ==
    \E r1 \in DOMAIN rounds, r2 \in DOMAIN rounds :
        /\ Raced(r1, r2)
        /\ ~rounds[r1].degraded /\ ~rounds[r2].degraded
        /\ rounds[r1].written.sections.demographics.name.value = "Alex"
        /\ rounds[r2].written.sections.demographics.age.value = "8"
        /\ ReadCard(db, rounds[r2].user).sections.demographics.name.value = ""
        /\ ReadCard(db, rounds[r2].user).sections.demographics.age.value = "8"

\* What the store holds for a user.
UserData(d, u) ==
    [card |-> ReadCard(d, u), history |-> ReadHistory(d, u),
     memories |-> ReadMemories(d, u), messages |-> ReadMessages(d, u)]

\* C15: users are independent: an operation performed for user A (a profile
\* get or save, a chat round's profile update, add_memory, log_message,
\* consolidation) leaves every profile, snapshot, memory item and message
\* stored for another user B as it was.
C15_UsersIndependent ==
    [][\A b \in Users :
          b # op'.user => UserData(db', b) = UserData(db, b)]_vars

\* u2 has just stored a merged profile of its own next to the profile,
\* snapshots, memory item and message of u1.
C15_Witness ==
    /\ op.name = "update" /\ op.user = "u2" /\ op.ok
    /\ ReadCard(db, "u2").version = 2
    /\ ReadCard(db, "u1").version = 3
    /\ DOMAIN ReadHistory(db, "u1") = {1, 2, 3}
    /\ ReadMemories(db, "u1") # EmptyDict
    /\ ReadMessages(db, "u1") # <<>>

\* The default profile as the contract describes it: version 1, every
\* scalar field with confidence 0 and count 0 except the language
\* preference, which is English at 0.95, and no key in any set field.
IsDefaultProfile(p) ==
    /\ p.version = 1
    /\ DOMAIN p.sections = DOMAIN DefaultSections
    /\ \A s \in DOMAIN p.sections :
          DOMAIN p.sections[s] = DOMAIN DefaultSections[s]
    /\ \A sf \in ScalarFields \ {<<"communication", "language_preference">>} :
          /\ p.sections[sf[1]][sf[2]]["confidence"] = Zero
          /\ p.sections[sf[1]][sf[2]]["count"] = 0
          /\ p.sections[sf[1]][sf[2]]["value"] = ""
    /\ p.sections.communication.language_preference.value = "English"
    /\ p.sections.communication.language_preference.confidence = Rat(19, 20)
    /\ \A sf \in SetFields : p.sections[sf[1]][sf[2]] = EmptyDict

\* C16 as stated: get_profile_card for a user with no stored profile
\* creates the default profile and persists it, so that the store then
\* holds that profile, and a get for a user with a stored profile returns
\* the stored profile instead of creating a new one.
C16_FirstAccessPersists ==
    /\ (op.name = "read" /\ op.before = NoCard)
          => /\ IsDefaultProfile(op.profile)
             /\ ReadCard(db, op.user) = op.profile
    /\ (op.name = "read" /\ op.before # NoCard)
          => /\ op.profile = op.before
             /\ ReadCard(db, op.user) = op.before

\* C16: when the store answers the read and accepts the write,
\* get_profile_card for a user with no stored profile creates the default
\* profile and persists it, so that the store then holds that profile and its
\* snapshot, and a get for a user with a stored profile returns the stored
\* profile and writes nothing; when the read fails or the write is refused,
\* the get returns a default profile all the same and leaves the store as it
\* was.
C16_FirstAccessPersistsWhenStoreAnswers ==
    /\ (op.name = "read" /\ op.before = NoCard /\ op.outcome = "ok"
        /\ op.saveOutcome # "set_fails")
          => /\ IsDefaultProfile(op.profile)
             /\ ReadCard(db, op.user) = op.profile
             /\ op.saveOutcome = "ok"
                   => ReadHistory(db, op.user) = Put(EmptyDict, 1, op.profile)
    /\ (op.name = "read" /\ op.before # NoCard /\ op.outcome = "ok")
          => /\ op.profile = op.before
             /\ ReadCard(db, op.user) = op.before
    /\ (op.name = "read"
        /\ (op.outcome = "read_fails" \/ op.saveOutcome = "set_fails"))
          => /\ IsDefaultProfile(op.profile)
             /\ ReadCard(db, op.user) = op.before

\* The second get of a user: the first one created the default profile, the
\* second returns that very profile from the store.
C16_Witness ==
    /\ op.name = "read" /\ op.ok /\ op.round = 2
    /\ rounds[1].user = op.user /\ rounds[1].pc = "read"
    /\ ~rounds[1].degraded
    /\ IsDefaultProfile(op.profile)
    /\ rounds[1].read = op.profile
    /\ op.before = op.profile
    /\ ReadCard(db, op.user) = op.profile
    /\ op.profile.metadata["total_facts"] = 1

\* The count the contract defines, by the kind a field has in the schema:
\* the scalar fields with a non-empty value, plus the keys of every set field.
SchemaCount(p) ==
    Cardinality({sf \in ScalarFields :
                    Get(p.sections[sf[1]][sf[2]], "value", "") # ""})
    + Cardinality(UNION {{<<sf, k>> : k \in DOMAIN p.sections[sf[1]][sf[2]]} :
                            sf \in SetFields})

\* A default profile with two demographics fields filled in and two
\* favourite animals.
FactsFixture ==
    [create_default_profile_card(UserId, 0) EXCEPT
        !.sections.demographics.name.value = "Alex",
        !.sections.demographics.age.value = "8",
        !.sections.preferences.favorite_animals =
            [triceratops |->
                [confidence |-> Rat(19, 20), count |-> 3, reasons |-> <<>>],
             stegosaurus |->
                [confidence |-> Rat(9, 10), count |-> 2, reasons |-> <<>>]]]

\* C17: count_total_facts(profile) is the number of scalar fields whose
\* value is non-empty plus, for every set field, the number of keys it holds;
\* the default profile counts 1, and a profile with 2 populated demographics
\* fields, 2 keys in one set field and the default language preference
\* counts 5.
C17_CountTotalFacts ==
    /\ count_total_facts(profile) = SchemaCount(profile)
    /\ count_total_facts(create_default_profile_card(UserId, 0)) = 1
    /\ count_total_facts(FactsFixture) = 5

(***************************************************************************)
(* The episodic index (episodic_memory.py) and the episodic context block  *)
(* (llm_integration.py).  index is the collection: the episodes in the     *)
(* order they were added.  A text is its content and its length in         *)
(* characters.                                                             *)
(***************************************************************************)
Text(s, n) == [s |-> s, len |-> n]

Smaller(a, b) == IF a <= b THEN a ELSE b

max_episodes == 3
ClipLen == 100

\* EpisodicMemory(): the constructor opens the collection and raises when
\* the client cannot be made.
EpisodicMemory(outcome) == [raised |-> outcome = "client_fails"]

\* The dictionary the two lookups build from an episode's metadata.
EpisodeDict(e) ==
    [user_message |-> e.user_message, ai_response |-> e.ai_response,
     round_number |-> e.round_number, timestamp |-> e.timestamp]

OfUser(idx, user_id) == SelectSeq(idx, LAMBDA e : e.user_id = user_id)

\* The orders in which a query can rank n episodes by distance.
Rankings(n) ==
    {r \in [1..n -> 1..n] : \A i, j \in 1..n : r[i] = r[j] => i = j}

\* search_episodes: the limit nearest episodes of the user, nearest first;
\* rank is the order the query's distances give.  A failing query is
\* swallowed and gives [].
search_episodes(idx, user_id, query, limit, outcome, rank) ==
    LET mine == OfUser(idx, user_id)
    IN  IF outcome = "query_fails"
        THEN <<>>
        ELSE [i \in 1..Smaller(limit, Len(mine)) |->
                 EpisodeDict(mine[rank[i]])]

\* get_recent_episodes: the user's episodes by timestamp, most recent
\* first, cut to limit.  A failing read is swallowed and gives [].
get_recent_episodes(idx, user_id, limit, outcome) ==
    LET mine == OfUser(idx, user_id)
        episodes ==
            SortSeq([i \in 1..Len(mine) |-> EpisodeDict(mine[i])],
                    LAMBDA a, b : a.timestamp > b.timestamp)
    IN  IF outcome = "get_fails"
        THEN <<>>
        ELSE SubSeq(episodes, 1, Smaller(limit, Len(episodes)))

search_user_episodes(idx, user_id, query, limit, outcome, rank) ==
    IF EpisodicMemory(outcome).raised
    THEN [called |-> TRUE, raised |-> TRUE, episodes |-> <<>>]
    ELSE [called |-> TRUE, raised |-> FALSE,
          episodes |-> search_episodes(idx, user_id, query, limit, outcome,
                                       rank)]

get_user_recent_episodes(idx, user_id, limit, outcome) ==
    IF EpisodicMemory(outcome).raised
    THEN [called |-> TRUE, raised |-> TRUE, episodes |-> <<>>]
    ELSE [called |-> TRUE, raised |-> FALSE,
          episodes |-> get_recent_episodes(idx, user_id, limit, outcome)]

NotCalled == [called |-> FALSE, raised |-> FALSE, episodes |-> <<>>]

\* t[:100] followed by '...' when t is longer than 100 characters.
Clip(t) ==
    [s |-> t.s, len |-> Smaller(t.len, ClipLen), dots |-> t.len > ClipLen]

\* One line of the block, and the block: the header and the lines.
EpisodeLine(e) ==
    [round_number |-> e.round_number, user |-> Clip(e.user_message),
     ai |-> Clip(e.ai_response)]

EpisodeBlock(episodes) ==
    [header |-> "# Recent Relevant Conversations",
     lines |-> [i \in 1..Len(episodes) |-> EpisodeLine(episodes[i])]]

\* get_episode_context with both lookups consulted on every call.
get_episode_context_BothLookups(idx, user_id, user_message, limit, searchOutcome, rank, recentOutcome) ==
    LET s == search_user_episodes(idx, user_id, user_message, limit,
                                  searchOutcome, rank)
        r == get_user_recent_episodes(idx, user_id, limit, recentOutcome)
        episodes == IF s.episodes = <<>> THEN r.episodes ELSE s.episodes
    IN  [text |-> IF s.raised \/ r.raised \/ episodes = <<>>
                  THEN ""
                  ELSE EpisodeBlock(episodes),
         search |-> s, recent |-> r]

\* get_episode_context: the text, with what each lookup returned.
get_episode_context(idx, user_id, user_message, limit, searchOutcome, rank, recentOutcome) ==
    LET s == search_user_episodes(idx, user_id, user_message, limit,
                                  searchOutcome, rank)
        fallback == ~s.raised /\ s.episodes = <<>>
        r == IF fallback
             THEN get_user_recent_episodes(idx, user_id, limit,
                                           recentOutcome)
             ELSE NotCalled
        episodes == IF fallback THEN r.episodes ELSE s.episodes
    IN  [text |-> IF s.raised \/ r.raised \/ episodes = <<>>
                  THEN ""
                  ELSE EpisodeBlock(episodes),
         search |-> s, recent |-> r]

\* The end of a chat round (llm_integration.py 455-484): the next round
\* number is one more than the largest among the user's 100 most recent
\* episodes, 1 when there is none; an error anywhere stores nothing.
store_conversation_round(idx, user_id, user_message, ai_response, now, recentOutcome, storeOutcome) ==
    LET existing_episodes ==
            get_user_recent_episodes(idx, user_id, 100, recentOutcome)
        rounds_seen ==
            {existing_episodes.episodes[i].round_number :
                 i \in 1..Len(existing_episodes.episodes)}
        round_number ==
            IF existing_episodes.episodes # <<>>
            THEN 1 + CHOOSE m \in rounds_seen : \A k \in rounds_seen : k <= m
            ELSE 1
        episode ==
            [user_id |-> user_id, user_message |-> user_message,
             ai_response |-> ai_response, round_number |-> round_number,
             timestamp |-> now]
    IN  IF existing_episodes.raised \/ storeOutcome # "ok"
        THEN [index |-> idx, now |-> now, ok |-> FALSE]
        ELSE [index |-> Append(idx, episode), now |-> now + 1, ok |-> TRUE]

MaxEpisodes == 3

ShortText == Text("I like dinosaurs", 16)
LongText == Text("Once upon a time there was a very long story", 140)
EpisodeInputs == {<<ShortText, ShortText>>, <<LongText, ShortText>>}

SearchOutcomes == {"ok", "client_fails", "query_fails"}
RecentOutcomes == {"ok", "client_fails", "get_fails"}

\* The end of a chat round stores the round as an episode.
StoreConversationRound(u) ==
    /\ Len(index) < MaxEpisodes
    /\ \E input \in EpisodeInputs,
          recentOutcome \in RecentOutcomes,
          storeOutcome \in {"ok", "client_fails", "add_fails"} :
          \E r \in {store_conversation_round(index, u, input[1], input[2],
                                             clock, recentOutcome,
                                             storeOutcome)} :
              /\ index' = r.index
              /\ clock' = r.now
              /\ ctx' = [name |-> "store_episode", user |-> u, ok |-> r.ok]
    /\ UNCHANGED <<cardVars, calls, used, storeVars, streamVars, flightVars>>

\* A call of get_episode_context.
GetEpisodeContext(u) ==
    /\ \E searchOutcome \in SearchOutcomes,
          recentOutcome \in RecentOutcomes,
          rank \in Rankings(Len(OfUser(index, u))) :
          \E r \in {get_episode_context(index, u, ShortText, max_episodes,
                                        searchOutcome, rank,
                                        recentOutcome)} :
              ctx' = [name |-> "episode_context", user |-> u,
                      text |-> r.text, search |-> r.search,
                      recent |-> r.recent]
    /\ UNCHANGED <<cardVars, clock, calls, used, storeVars, index,
                   streamVars, flightVars>>

NextEpisodes ==
    \E u \in Users :
        \/ StoreConversationRound(u)
        \/ GetEpisodeContext(u)

SpecEpisodes == Init /\ [][NextEpisodes]_vars

(***************************************************************************)
(* C19: the episodic context block is built from the search results when   *)
(* search returns at least one episode, and then recent is never           *)
(* consulted; from the recent episodes only when search returns none; and  *)
(* it is the empty string when both are empty or when either lookup        *)
(* raises.                                                                 *)
(***************************************************************************)
C19_EpisodeContext ==
    ctx.name = "episode_context" =>
        LET s == ctx.search
            r == ctx.recent
        IN  /\ s.called
            /\ (~s.raised /\ s.episodes # <<>>) =>
                   /\ ctx.text = EpisodeBlock(s.episodes)
                   /\ ~r.called
            /\ (~s.raised /\ s.episodes = <<>>) => r.called
            /\ (~s.raised /\ s.episodes = <<>> /\ ~r.raised
                    /\ r.episodes # <<>>) =>
                   ctx.text = EpisodeBlock(r.episodes)
            /\ (~s.raised /\ s.episodes = <<>> /\ ~r.raised
                    /\ r.episodes = <<>>) =>
                   ctx.text = ""
            /\ (s.raised \/ r.raised) => ctx.text = ""

\* A search that ranked an older episode first gave the block, where the
\* recent episodes would have given another one.
C19_Witness ==
    /\ ctx.name = "episode_context"
    /\ ~ctx.search.raised
    /\ Len(ctx.search.episodes) >= 2
    /\ ctx.search.episodes
           # get_recent_episodes(index, ctx.user, max_episodes, "ok")
    /\ ctx.text = EpisodeBlock(ctx.search.episodes)
    /\ \E i \in 1..Len(ctx.text.lines) : ctx.text.lines[i].user.dots

(***************************************************************************)
(* The message list of a chat round (main.py, llm_integration.py,          *)
(* firestore_store.py).                                                    *)
(***************************************************************************)
\* str.strip() on the contents of the model: a content of blanks only
\* becomes empty, the others have no blank at either end.
Strip(content) == IF content \in {"", "   "} THEN "" ELSE content

history_limit == 12

\* get_last_messages(uid, limit=6) called with keyword arguments kwargs: a
\* keyword the signature does not have raises TypeError; otherwise the
\* limit latest messages by ts, reversed to oldest first.
get_last_messages(d, uid, kwargs) ==
    LET limit == Get(kwargs, "limit", 6)
        latest == SortSeq(ReadMessages(d, uid),
                          LAMBDA a, b : a.ts > b.ts)
        docs == SubSeq(latest, 1, Smaller(limit, Len(latest)))
    IN  IF ~(DOMAIN kwargs \subseteq {"uid", "limit"})
        THEN [raised |-> TRUE, exc |-> "TypeError", items |-> <<>>]
        ELSE [raised |-> FALSE, exc |-> "none",
              items |-> [i \in 1..Len(docs) |-> docs[Len(docs) + 1 - i]]]

\* format_profile_for_llm: the values of the scalar fields and the keys of
\* the set fields that the text names.
format_value_field(field_dict) ==
    IF field_dict = EmptyDict \/ Get(field_dict, "value", "") = ""
    THEN ""
    ELSE field_dict["value"]

format_dict_field(field_dict) == DOMAIN field_dict

format_profile_for_llm(p) ==
    LET sections == p.sections
    IN  [name |-> format_value_field(sections["demographics"]["name"]),
         age |-> format_value_field(sections["demographics"]["age"]),
         location |->
             format_value_field(sections["demographics"]["location"]),
         interests |->
             format_dict_field(sections["interests"]["primary_interests"]),
         animals |->
             format_dict_field(sections["preferences"]["favorite_animals"]),
         foods |->
             format_dict_field(sections["preferences"]["favorite_foods"]),
         colors |->
             format_dict_field(sections["preferences"]["favorite_colors"]),
         safety |->
             format_dict_field(sections["constraints"]["safety_limits"]),
         schedule |->
             format_dict_field(sections["constraints"]["schedule_limits"]),
         health |->
             format_dict_field(sections["constraints"]["health_limits"]),
         goals |-> format_dict_field(sections["goals"]["learning_goals"]),
         events |-> format_dict_field(sections["context"]["recent_events"]),
         style |-> format_value_field(sections["communication"]["style"]),
         level |->
             format_value_field(sections["communication"]["learning_level"])]

\* The turns of a history that the list keeps: those whose content is not
\* empty once stripped, as role and content.
Turns(conversation_history) ==
    LET kept == SelectSeq(conversation_history,
                          LAMBDA msg : Strip(Get(msg, "content", "")) # "")
    IN  [i \in 1..Len(kept) |->
            [role |-> Get(kept[i], "role", "user"),
             content |-> Get(kept[i], "content", "")]]

\* format_llm_messages: the system message, the history, the current user
\* message; the exception of the history read is not caught.
format_llm_messages(d, idx, user_id, user_message, profile_card, searchOutcome, rank, recentOutcome) ==
    LET profile_context == format_profile_for_llm(profile_card)
        episode_context ==
            get_episode_context(idx, user_id, user_message, max_episodes,
                                searchOutcome, rank, recentOutcome).text
        system_content ==
            [user_profile |-> profile_context, episodes |-> episode_context]
        conversation_history ==
            get_last_messages(d, user_id,
                              [limit |-> history_limit, offset |-> 0])
    IN  IF conversation_history.raised
        THEN [raised |-> TRUE, exc |-> conversation_history.exc,
              messages |-> <<>>]
        ELSE [raised |-> FALSE, exc |-> "none",
              messages |->
                  <<[role |-> "system", content |-> system_content]>>
                  \o Turns(conversation_history.items)
                  \o <<[role |-> "user", content |-> user_message]>>]

\* POST /api/chat: a message that is empty once stripped is refused;
\* otherwise the message is logged, the profile card read and the message
\* list built.  An exception of the round gives the fallback stream.
chat(d, idx, uid, msg, now, searchOutcome, rank, recentOutcome) ==
    LET logged == {log_message(d, uid, "user", msg, now)}
        read == {StoreGet(m.db, uid, m.now, "ok", "ok") : m \in logged}
        Round(g) ==
            CHOOSE out \in
                {[db |-> g.db, now |-> g.now, accepted |-> TRUE,
                  raised |-> f.raised, exc |-> f.exc,
                  messages |-> f.messages, fallback |-> f.raised] :
                    f \in {format_llm_messages(g.db, idx, uid, msg,
                                               g.profile, searchOutcome,
                                               rank, recentOutcome)}} : TRUE
    IN  IF Strip(msg) = ""
        THEN [db |-> d, now |-> now, accepted |-> FALSE, raised |-> FALSE,
              exc |-> "none", messages |-> <<>>, fallback |-> FALSE]
        ELSE CHOOSE out \in {Round(g) : g \in read} : TRUE

MaxChats == 3

ChatMessages == {"hi", "I like dinosaurs", "   "}
Replies == {"Roar!", ""}

\* One request to POST /api/chat.
Chat(u) ==
    /\ calls < MaxChats
    /\ \E msg \in ChatMessages,
          searchOutcome \in {"ok", "client_fails"} :
          \E r \in {chat(db, index, u, msg, clock, searchOutcome,
                         [i \in 1..Len(OfUser(index, u)) |-> i], "ok")} :
              /\ db' = r.db
              /\ clock' = r.now
              /\ ctx' = [name |-> "chat", user |-> u, message |-> msg,
                         accepted |-> r.accepted,
                         prior |-> ReadMessages(db, u),
                         raised |-> r.raised, exc |-> r.exc,
                         messages |-> r.messages, fallback |-> r.fallback]
    /\ calls' = calls + 1
    /\ UNCHANGED <<cardVars, used, rounds, op, index, streamVars, flightVars>>

\* The reply of a round is logged when it is not empty once stripped
\* (llm_integration.py 451-452).
LogReply(u) ==
    /\ calls < MaxChats
    /\ \E full_response \in Replies :
          \E r \in {IF Strip(full_response) # ""
                    THEN log_message(db, u, "assistant",
                                     Strip(full_response), clock)
                    ELSE [db |-> db, now |-> clock, ok |-> TRUE]} :
              /\ db' = r.db
              /\ clock' = r.now
              /\ ctx' = [name |-> "reply", user |-> u,
                         logged |-> Strip(full_response) # ""]
    /\ calls' = calls + 1
    /\ UNCHANGED <<cardVars, used, rounds, op, index, streamVars, flightVars>>

NextChat ==
    \E u \in Users :
        \/ Chat(u)
        \/ LogReply(u)

SpecChat == Init /\ [][NextChat]_vars

\* The turns logged before the current message that the list is to hold:
\* the latest history_limit of them, oldest first, empty ones left out.
PriorTurns(prior) ==
    Turns(SubSeq(prior, Len(prior) - Smaller(history_limit, Len(prior)) + 1,
                 Len(prior)))

(***************************************************************************)
(* C18: the message list built for an accepted chat message is ordered:    *)
(* exactly one system message, first; then the turns logged before the     *)
(* current message, empty-content ones omitted, oldest first; then the     *)
(* current user message as the last element.                               *)
(***************************************************************************)
C18_MessageOrder ==
    (ctx.name = "chat" /\ ctx.accepted) =>
        LET messages == ctx.messages
            n == Len(messages)
        IN  /\ ~ctx.raised
            /\ n >= 2
            /\ messages[1].role = "system"
            /\ \A i \in 2..n : messages[i].role # "system"
            /\ SubSeq(messages, 2, n - 1) = PriorTurns(ctx.prior)
            /\ messages[n] = [role |-> "user", content |-> ctx.message]

(***************************************************************************)
(* stream_llm_response (llm_integration.py): a generator of items (chunk,  *)
(* profile_updates_json, raw_output).  A text is the sequence of the       *)
(* pieces it was put together from; "" is the empty string and <<>> the    *)
(* empty text.                                                             *)
(***************************************************************************)
Item(chunk, updates_json, raw) ==
    [chunk |-> chunk, updates_json |-> updates_json, raw |-> raw]

\* json.dumps of the mappings of the model, and json.loads of its argument
\* texts: an object with one update, an object with none, an array; any
\* other text is no JSON.
NoUpdates == [updates |-> <<>>]

json_dumps(obj) ==
    CASE obj = NoUpdates -> "{updates:[]}"
      [] obj = [updates |-> <<RawAlex>>] -> "{updates:[U]}"

json_loads(s) ==
    CASE s = <<"{updates:[U]}">> ->
             [exc |-> "none", kind |-> "dict",
              value |-> [updates |-> <<RawAlex>>]]
      [] s = <<"{updates:[]}">> ->
             [exc |-> "none", kind |-> "dict", value |-> NoUpdates]
      [] s = <<"[]">> ->
             [exc |-> "none", kind |-> "list", value |-> <<>>]
      [] OTHER ->
             [exc |-> "JSONDecodeError", kind |-> "none", value |-> <<>>]

fallback_response == "I don't have access to OpenAI API."
default_response == "Thanks for sharing that information!"
error_msg == "I'm sorry, there was an error processing your request"

\* The text is empty once stripped.
Blank(buffer) == \A i \in DOMAIN buffer : Strip(buffer[i]) = ""

\* The run before its first step, and the locals after the stream was
\* created; finish_reason is choices[0].finish_reason of the latest event.
Started ==
    [pc |-> "streaming", yielded |-> <<>>, buffer |-> <<>>,
     raw_output |-> <<>>, profile_updates |-> NoUpdates,
     function_call_buffer |-> <<>>, events |-> 0, finish_reason |-> "none",
     exc |-> "none", escaped |-> FALSE]

Yield(st, item) == [st EXCEPT !.yielded = Append(@, item)]

\* except Exception: the exception is left to escape and nothing is
\* yielded.
ExceptHandler_Reraise(st, exc) ==
    [st EXCEPT !.pc = "done", !.exc = exc, !.escaped = TRUE]

\* except Exception: one item with the error text and an empty updates
\* list ends the run.
ExceptHandler(st, exc) ==
    [Yield(st, Item(error_msg, json_dumps(NoUpdates), <<error_msg>>))
        EXCEPT !.pc = "done", !.exc = exc]

\* The start of a run: without a client one fallback item ends it; a
\* request the provider refuses goes to the handler.
StartRun(use_openai, createOutcome) ==
    IF ~use_openai
    THEN [Yield(Started, Item(fallback_response, json_dumps(NoUpdates),
                              <<fallback_response>>))
             EXCEPT !.pc = "done"]
    ELSE IF createOutcome # "ok"
    THEN ExceptHandler(Started, "provider")
    ELSE Started

\* The body of the loop for one event of the stream.
OnEvent(st, event) ==
    LET withContent ==
            IF event.content # ""
            THEN [Yield(st, Item(event.content, "", <<>>))
                     EXCEPT !.buffer = Append(@, event.content),
                            !.raw_output = Append(@, event.content)]
            ELSE st
        counted ==
            [withContent EXCEPT !.events = @ + 1,
                                !.finish_reason = event.finish_reason]
        function_args == json_loads(counted.function_call_buffer)
    IN  IF event.function_call # "none"
        THEN [counted EXCEPT
                 !.function_call_buffer =
                     IF event.function_call = ""
                     THEN @
                     ELSE Append(@, event.function_call),
                 !.raw_output = Append(@, event.function_call)]
        ELSE IF event.finish_reason # "function_call"
        THEN counted
        ELSE IF function_args.exc # "none"
        THEN counted
        ELSE IF function_args.kind # "dict"
        THEN ExceptHandler(counted, "AttributeError")
        ELSE IF function_args.value["updates"] # <<>>
        THEN [counted EXCEPT !.profile_updates = function_args.value]
        ELSE counted

\* After the last event: the default response when there is no text but
\* there are updates, then the item with the updates.
OnEnd(st) ==
    LET defaulted ==
            IF Blank(st.buffer) /\ st.profile_updates["updates"] # <<>>
            THEN [Yield(st, Item(default_response, "", <<>>))
                     EXCEPT !.buffer = <<default_response>>,
                            !.raw_output = Append(@, default_response)]
            ELSE st
    IN  [Yield(defaulted, Item("", json_dumps(defaulted.profile_updates),
                               defaulted.raw_output))
            EXCEPT !.pc = "done"]

MaxEvents == 3

Contents == {"", "Roar", "   "}
FunctionCalls ==
    {"none", "", "{updates:[U]}", "{updates:[]}", "{updates:[", "[]"}
FinishReasons == {"none", "function_call", "stop"}

Events ==
    [content : Contents, function_call : FunctionCalls,
     finish_reason : FinishReasons]

otherVars ==
    <<profile, stored, history, clock, last, asserted, calls, used, db,
      rounds, op, index, ctx, resp, adds>>

\* A run starts.
StreamStart ==
    /\ stream.pc \in {"idle", "done"}
    /\ \E use_openai \in BOOLEAN, createOutcome \in {"ok", "fails"} :
          stream' = StartRun(use_openai, createOutcome)
    /\ UNCHANGED otherVars

\* The provider sends an event, one of events.
StreamEventFrom(events) ==
    /\ stream.pc = "streaming"
    /\ stream.events < MaxEvents
    /\ \E event \in events : stream' = OnEvent(stream, event)
    /\ UNCHANGED otherVars

StreamEvent == StreamEventFrom(Events)

\* The provider fails while the stream is read.
StreamFails ==
    /\ stream.pc = "streaming"
    /\ stream' = ExceptHandler(stream, "provider")
    /\ UNCHANGED otherVars

\* The stream ends.
StreamEnd ==
    /\ stream.pc = "streaming"
    /\ stream' = OnEnd(stream)
    /\ UNCHANGED otherVars

NextStream ==
    \/ StreamStart
    \/ StreamEvent
    \/ StreamFails
    \/ StreamEnd

SpecStream == Init /\ [][NextStream]_vars

(***************************************************************************)
(* C20: in every run of stream_llm_response (success, missing API key,     *)
(* provider failure at any point of the stream) every item yielded while   *)
(* the run goes on carries text only, and when the run is over exactly     *)
(* one item carries an updates payload and it is the last one; after a     *)
(* failure that last item carries the fallback text and an empty updates   *)
(* list, and no exception escapes.                                         *)
(***************************************************************************)
C20_SingleTerminalItem ==
    LET y == stream.yielded
        n == Len(y)
        TextOnly(item) == item.chunk # "" /\ item.updates_json = ""
    IN  /\ stream.pc = "streaming" => \A i \in 1..n : TextOnly(y[i])
        /\ stream.pc = "done" =>
               /\ ~stream.escaped
               /\ n >= 1
               /\ y[n].updates_json # ""
               /\ \A i \in 1..(n - 1) : TextOnly(y[i])
               /\ stream.exc # "none" =>
                      /\ y[n].chunk = error_msg
                      /\ y[n].updates_json = json_dumps(NoUpdates)

\* The provider failed after text was streamed and updates were parsed.
C20_Witness ==
    /\ stream.pc = "done"
    /\ stream.exc = "provider"
    /\ stream.profile_updates # NoUpdates
    /\ Len(stream.yielded) >= 2
    /\ stream.yielded[Len(stream.yielded)].updates_json
           = json_dumps(NoUpdates)

(***************************************************************************)
(* C27: whenever the stream delivered function-call arguments and its last *)
(* event has finish_reason "function_call", the terminal item carries      *)
(* exactly the updates parsed from the accumulated arguments, whether the  *)
(* finish reason came in the event of the last fragment or in a later one. *)
(***************************************************************************)
C27_TerminalItemCarriesParsedUpdates ==
    LET y == stream.yielded
        function_args == json_loads(stream.function_call_buffer)
    IN  (/\ stream.pc = "done"
         /\ stream.exc = "none"
         /\ stream.events > 0
         /\ stream.finish_reason = "function_call"
         /\ function_args.exc = "none"
         /\ function_args.kind = "dict") =>
            y[Len(y)].updates_json = json_dumps(function_args.value)

\* The finish reason came in an event after the one with the arguments.
C27_LaterEvent ==
    /\ stream.pc = "done"
    /\ stream.exc = "none"
    /\ stream.finish_reason = "function_call"
    /\ stream.function_call_buffer = <<"{updates:[U]}">>
    /\ stream.yielded[Len(stream.yielded)].updates_json = "{updates:[U]}"

(***************************************************************************)
(* C23: for every user the round numbers of the user's stored episodes are *)
(* pairwise distinct and strictly increasing in the order the episodes     *)
(* were stored, also when a lookup of the existing episodes failed.        *)
(***************************************************************************)
C23_RoundNumbersIncrease ==
    \A u \in Users :
        LET mine == OfUser(index, u)
        IN  \A i, j \in 1..Len(mine) :
                i < j => mine[i].round_number < mine[j].round_number

\* Two episodes of a user stored one after the other with working lookups.
C23_Numbered ==
    \E u \in Users :
        LET mine == OfUser(index, u)
        IN  /\ Len(mine) >= 2
            /\ mine[1].round_number = 1
            /\ mine[2].round_number = 2

\* The facts of a stored profile kept by another: every scalar value that
\* is set and every key of a set field.
FactsKept(before, after) ==
    /\ \A sf \in ScalarFields :
          (/\ HasField(before.sections, sf[1], sf[2])
           /\ Get(before.sections[sf[1]][sf[2]], "value", "") # "") =>
              /\ HasField(after.sections, sf[1], sf[2])
              /\ Get(after.sections[sf[1]][sf[2]], "value", "")
                     = before.sections[sf[1]][sf[2]]["value"]
    /\ \A sf \in SetFields :
          HasField(before.sections, sf[1], sf[2]) =>
              /\ HasField(after.sections, sf[1], sf[2])
              /\ DOMAIN before.sections[sf[1]][sf[2]]
                     \subseteq DOMAIN after.sections[sf[1]][sf[2]]

(***************************************************************************)
(* C28: a degraded profile read never costs stored facts: when a round     *)
(* whose read fell back to the default profile saves, every scalar value   *)
(* and every set key of the profile stored before is still in the profile  *)
(* stored after the save.                                                  *)
(***************************************************************************)
C28_DegradedReadKeepsFacts ==
    [][(/\ op'.name = "update"
        /\ op'.ok
        /\ rounds[op'.round].degraded) =>
           FactsKept(ReadCard(db, op'.user), ReadCard(db', op'.user))]_vars

\* A round that read the stored profile saved, and the name stored before
\* is still stored.
C28_Kept ==
    /\ op.name = "update"
    /\ op.ok
    /\ ~rounds[op.round].degraded
    /\ op.before.sections.demographics.name.value = "Alex"
    /\ FactsKept(op.before, ReadCard(db, op.user))

(***************************************************************************)
(* add_memory of firestore.py, the module of consolidate_memories: a query *)
(* for a document with the item's key (lines 179-183), then an update of   *)
(* the document found or the creation of a document with a generated id    *)
(* (185-196).                                                              *)
(***************************************************************************)
AutoIds == <<"auto-1", "auto-2", "auto-3", "auto-4", "auto-5", "auto-6">>

AutoDocs(coll) == {id \in DOMAIN coll : \E n \in DOMAIN AutoIds : AutoIds[n] = id}

memory_fields == {"type", "key", "value", "confidence", "salience"}

firestore_add_memory_query(d, uid, item, now) ==
    LET coll == Get(d, _get_memories_collection(uid), EmptyDict)
        stamped == IF "ts" \in DOMAIN item THEN item ELSE Put(item, "ts", now)
    IN  [exc |-> IF memory_fields \subseteq DOMAIN stamped THEN "none"
                 ELSE "FirestoreError",
         item |-> stamped,
         existing_docs |->
             IF memory_fields \subseteq DOMAIN stamped
             THEN {id \in DOMAIN coll : coll[id]["key"] = stamped["key"]}
             ELSE {},
         now |-> now + 1]

\* Every call creates a document, also when the query found one.
firestore_add_memory_write_AlwaysCreate(d, uid, item, existing, now) ==
    LET memories_ref == _get_memories_collection(uid)
        coll == Get(d, memories_ref, EmptyDict)
        doc_id == AutoIds[Cardinality(AutoDocs(coll)) + 1]
    IN  [db |-> SetDoc(d, memories_ref, Put(coll, doc_id, item), EmptyDict),
         now |-> now, ok |-> TRUE]

\* existing is the document the query returned, as a sequence of at most one.
firestore_add_memory_write(d, uid, item, existing, now) ==
    LET memories_ref == _get_memories_collection(uid)
        coll == Get(d, memories_ref, EmptyDict)
        doc_id == IF existing # <<>> THEN existing[1]
                  ELSE AutoIds[Cardinality(AutoDocs(coll)) + 1]
        data == IF existing # <<>> THEN DictUpdate(coll[doc_id], item)
                ELSE item
    IN  [db |-> SetDoc(d, memories_ref, Put(coll, doc_id, data), EmptyDict),
         now |-> now, ok |-> TRUE]

(***************************************************************************)
(* The memory items of the users under add_memory calls that overlap and   *)
(* consolidation runs.  adds[i] is the i-th call: its user, its module,    *)
(* its item, what its read returned and the sequence numbers of its read   *)
(* and its write.  A user's items are written through one of the two       *)
(* modules.                                                                *)
(***************************************************************************)
MaxAdds == 2
MaxConsolidations == 1

StoreItems ==
    {[type |-> "episodic", key |-> "likes_dinosaurs", value |-> "yes"],
     [type |-> "episodic", key |-> "Likes Dinosaurs!", value |-> "no",
      confidence |-> Num(Rat(1, 2))]}

FullItems ==
    {[type |-> "episodic", key |-> "likes_dinosaurs", value |-> "yes",
      confidence |-> Rat(9, 10), salience |-> One],
     [type |-> "episodic", key |-> "Likes Dinosaurs!", value |-> "yes",
      confidence |-> Rat(1, 2), salience |-> One]}

Thresholds == {1, 2, promotion_threshold}

OneModule(u, impl) ==
    \A i \in DOMAIN adds : adds[i].user = u => adds[i].impl = impl

MemoryOp(name, u, mtype, key, result) ==
    [name |-> name, user |-> u, mtype |-> mtype, key |-> key,
     before |-> ReadMemories(db, u), result |-> result]

\* firestore_store.add_memory up to the read of the document.
AddMemoryGet(u) ==
    /\ Len(adds) < MaxAdds
    /\ OneModule(u, "firestore_store")
    /\ \E item \in StoreItems :
          \E g \in {add_memory_get(db, u, item, clock)} :
              /\ g.exc = "none"
              /\ adds' = Append(adds,
                                [user |-> u, impl |-> "firestore_store",
                                 pc |-> "read", read |-> g,
                                 readAt |-> calls + 1, writeAt |-> 0])
              /\ clock' = g.now
    /\ calls' = calls + 1
    /\ UNCHANGED <<cardVars, used, storeVars, contextVars, streamVars, resp>>

\* firestore_store.add_memory from the read on: the write of the document.
AddMemorySet(i) ==
    /\ i \in DOMAIN adds
    /\ adds[i].pc = "read"
    /\ adds[i].impl = "firestore_store"
    /\ \E s \in {add_memory_set(db, adds[i].user, adds[i].read, clock)} :
          /\ db' = s.db
          /\ clock' = s.now
          /\ op' = MemoryOp("add_memory", adds[i].user, adds[i].read.mtype,
                            adds[i].read.key, 0)
    /\ adds' = [adds EXCEPT ![i] = [@ EXCEPT !.pc = "done",
                                             !.writeAt = calls + 1]]
    /\ calls' = calls + 1
    /\ UNCHANGED <<cardVars, used, rounds, contextVars, streamVars, resp>>

\* firestore.add_memory up to the query for the key; the query returns one
\* of the documents with the key.
AddMemoryQuery(u) ==
    /\ Len(adds) < MaxAdds
    /\ OneModule(u, "firestore")
    /\ \E item \in FullItems :
          \E q \in {firestore_add_memory_query(db, u, item, clock)} :
              /\ q.exc = "none"
              /\ \E existing \in
                     IF q.existing_docs = {} THEN {<<>>}
                     ELSE {<<id>> : id \in q.existing_docs} :
                    adds' = Append(adds,
                                   [user |-> u, impl |-> "firestore",
                                    pc |-> "read",
                                    read |-> [item |-> q.item,
                                              existing |-> existing],
                                    readAt |-> calls + 1, writeAt |-> 0])
              /\ clock' = q.now
    /\ calls' = calls + 1
    /\ UNCHANGED <<cardVars, used, storeVars, contextVars, streamVars, resp>>

\* firestore.add_memory from the query on: the update or the creation.
AddMemoryWrite(i) ==
    /\ i \in DOMAIN adds
    /\ adds[i].pc = "read"
    /\ adds[i].impl = "firestore"
    /\ \E s \in {firestore_add_memory_write(db, adds[i].user,
                                            adds[i].read.item,
                                            adds[i].read.existing, clock)} :
          /\ db' = s.db
          /\ op' = MemoryOp("add_memory", adds[i].user,
                            adds[i].read.item["type"],
                            adds[i].read.item["key"], 0)
    /\ adds' = [adds EXCEPT ![i] = [@ EXCEPT !.pc = "done",
                                             !.writeAt = calls + 1]]
    /\ calls' = calls + 1
    /\ UNCHANGED <<cardVars, used, rounds, clock, contextVars, streamVars,
                   resp>>

\* A consolidation run.
Consolidate(u) ==
    /\ used < MaxConsolidations
    /\ \E threshold \in Thresholds :
          \E s \in {consolidate_memories(db, u, threshold)} :
              /\ db' = s.db
              /\ op' = MemoryOp("consolidate", u, "", "",
                                [threshold |-> threshold,
                                 promoted_count |-> s.promoted_count,
                                 total_episodic |-> s.total_episodic])
    /\ used' = used + 1
    /\ calls' = calls + 1
    /\ UNCHANGED <<cardVars, rounds, clock, contextVars, streamVars,
                   flightVars>>

NextMemory ==
    \/ \E u \in Users : AddMemoryGet(u)
    \/ \E i \in 1..MaxAdds : AddMemorySet(i)
    \/ \E u \in Users : AddMemoryQuery(u)
    \/ \E i \in 1..MaxAdds : AddMemoryWrite(i)
    \/ \E u \in Users : Consolidate(u)

SpecMemory == Init /\ [][NextMemory]_vars

\* The documents of a collection that hold the given type and a key of the
\* given slug.
Records(coll, mtype, slug) ==
    {id \in DOMAIN coll :
        coll[id]["type"] = mtype /\ _slug(coll[id]["key"]) = slug}

(***************************************************************************)
(* C26: after any sequence of add_memory calls, overlapping ones of one    *)
(* user included, a user has at most one memory record per (type, key),    *)
(* and an add that finds a record of its type and of a key with the same   *)
(* slug overwrites that record instead of creating another one and keeps   *)
(* the record's ts.                                                        *)
(***************************************************************************)
C26_OneRecordPerKey ==
    [][op'.name = "add_memory" =>
          LET before == ReadMemories(db, op'.user)
              after == ReadMemories(db', op'.user)
              slug == _slug(op'.key)
          IN  /\ \A a, b \in DOMAIN after :
                    (/\ after[a]["type"] = after[b]["type"]
                     /\ after[a]["key"] = after[b]["key"]) => a = b
              /\ \A id \in Records(before, op'.mtype, slug) :
                    /\ Records(after, op'.mtype, slug) = {id}
                    /\ after[id]["ts"] = before[id]["ts"]]_vars

\* A second add_memory of firestore_store for a record that exists, after
\* the first one is over: one record, with the value and the key of the
\* second add and the ts of the first.
C26_Upsert ==
    /\ op.name = "add_memory"
    /\ Len(adds) = 2
    /\ adds[1].user = adds[2].user
    /\ adds[2].impl = "firestore_store"
    /\ adds[1].writeAt < adds[2].readAt
    /\ adds[2].pc = "done"
    /\ adds[1].read.key # adds[2].read.key
    /\ adds[1].read.mtype = adds[2].read.mtype
    /\ LET coll == ReadMemories(db, op.user)
       IN  /\ Cardinality(DOMAIN coll) = 1
           /\ \A id \in DOMAIN coll :
                 /\ coll[id]["key"] = adds[2].read.key
                 /\ coll[id]["ts"] = adds[1].read.ts

\* The add_memory calls of the user came one after the other: each one's
\* write was over before the next one's read.
SequentialAdds(u) ==
    \A i, j \in DOMAIN adds :
        (adds[i].user = u /\ adds[j].user = u /\ i < j) =>
            /\ adds[i].pc = "done"
            /\ adds[j].pc = "done"
            /\ adds[i].writeAt < adds[j].readAt

EpisodicOfKey(coll, key) ==
    {id \in DOMAIN coll :
        coll[id]["type"] = "episodic" /\ coll[id]["key"] = key}

MaxItems == 3
MaxRuns == 2

TsValues == {1, 2}

MemoryRecords ==
    [type : {"episodic", "semantic"}, key : {"likes_dinosaurs", "language", ""},
     value : {"yes"}, confidence : {Rat(9, 10)}, salience : {One},
     ts : TsValues]

StartCollections ==
    UNION {[{AutoIds[i] : i \in 1..n} -> MemoryRecords] : n \in 0..MaxItems}

InitConsolidate ==
    /\ \E coll \in StartCollections :
          db = SetDoc(EmptyDict, _get_memories_collection("u1"), coll,
                      EmptyDict)
    /\ clock = 0
    /\ rounds = EmptyDict
    /\ op = NoOp
    /\ profile = NoCard
    /\ stored = NoCard
    /\ history = EmptyDict
    /\ asserted = {}
    /\ last = NoCall
    /\ calls = 0
    /\ used = 0
    /\ ContextIdle
    /\ StreamIdle
    /\ FlightIdle

\* A consolidation run; prev is the run before it.
ConsolidateRun(u) ==
    /\ calls < MaxRuns
    /\ \E threshold \in Thresholds :
          \E s \in {consolidate_memories(db, u, threshold)} :
              /\ db' = s.db
              /\ op' = MemoryOp("consolidate", u, "", "",
                                [threshold |-> threshold,
                                 promoted_count |-> s.promoted_count,
                                 total_episodic |-> s.total_episodic])
    /\ calls' = calls + 1
    /\ UNCHANGED <<cardVars, used, rounds, clock, contextVars, streamVars,
                   flightVars>>

NextConsolidate == \E u \in Users : ConsolidateRun(u)

SpecConsolidate == InitConsolidate /\ [][NextConsolidate]_vars

\* What the latest run did to the items of the keys in hot, the keys with
\* at least threshold episodic items: of every such key one item, one of
\* the greatest ts, became semantic with salience min(1.0, count * 0.1);
\* every other item is as it was; the result counts the keys and the
\* episodic items.
Promoted(item, count) ==
    [item EXCEPT !["type"] = "semantic",
                 !["salience"] = RMin(One, Rat(count, 10))]

ConsolidatedOver(before, after, result, hot) ==
    /\ DOMAIN after = DOMAIN before
    /\ \A key \in hot :
          \E id \in EpisodicOfKey(before, key) :
              /\ after[id]
                    = Promoted(before[id],
                               Cardinality(EpisodicOfKey(before, key)))
              /\ \A other \in EpisodicOfKey(before, key) :
                    /\ before[other]["ts"] <= before[id]["ts"]
                    /\ other # id => after[other] = before[other]
    /\ \A id \in DOMAIN before :
          (before[id]["type"] # "episodic" \/ before[id]["key"] \notin hot)
              => after[id] = before[id]
    /\ result.promoted_count = Cardinality(hot)
    /\ result.total_episodic
           = Cardinality({id \in DOMAIN before :
                             before[id]["type"] = "episodic"})

EpisodicKeys(coll) ==
    {coll[id]["key"] : id \in {i \in DOMAIN coll : coll[i]["type"] = "episodic"}}

HotKeys(coll, threshold) ==
    {key \in EpisodicKeys(coll) :
        Cardinality(EpisodicOfKey(coll, key)) >= threshold}

(***************************************************************************)
(* C24: consolidate(user, threshold): for every key that occurs in at      *)
(* least threshold episodic items of the user exactly one item, the one    *)
(* with the greatest ts, becomes semantic with salience                    *)
(* min(1.0, count * 0.1); every other item is left unchanged; the result   *)
(* reports promoted_count = number of such keys and total_episodic =       *)
(* number of episodic items before the run.                                *)
(***************************************************************************)
C24_Consolidate ==
    op.name = "consolidate" =>
        ConsolidatedOver(op.before, ReadMemories(db, op.user), op.result,
                         HotKeys(op.before, op.result.threshold))

\* C24 as amended: the same for every non-empty key; the episodic items
\* with an empty key are counted in total_episodic and never promoted.
C24_ConsolidateKeyed ==
    op.name = "consolidate" =>
        ConsolidatedOver(op.before, ReadMemories(db, op.user), op.result,
                         HotKeys(op.before, op.result.threshold) \ {""})

\* Three episodic items of one key with threshold 3: one promoted item with
\* salience 0.3, the two others still episodic.
C24_Witness ==
    /\ op.name = "consolidate"
    /\ op.result.threshold = 3
    /\ Cardinality(EpisodicOfKey(op.before, "likes_dinosaurs")) = 3
    /\ op.result.promoted_count = 1
    /\ op.result.total_episodic = 3
    /\ Cardinality(EpisodicOfKey(ReadMemories(db, op.user),
                                 "likes_dinosaurs")) = 2
    /\ \E id \in DOMAIN op.before :
          /\ ReadMemories(db, op.user)[id]["type"] = "semantic"
          /\ ReadMemories(db, op.user)[id]["salience"] = Rat(3, 10)

(***************************************************************************)
(* C25: consolidation is idempotent when nothing new arrives: for every    *)
(* set of memory items and every threshold, a second run with no item      *)
(* added in between promotes nothing (promoted_count = 0) and changes no   *)
(* item.                                                                   *)
(***************************************************************************)
C25_SecondRunPromotesNothing ==
    [][(/\ op.name = "consolidate"
        /\ op'.name = "consolidate"
        /\ op'.user = op.user
        /\ op'.result.threshold = op.result.threshold) =>
           /\ op'.result.promoted_count = 0
           /\ db' = db]_vars

\* A second run over a key that had exactly threshold episodic items
\* promoted nothing.
C25_Settled ==
    /\ op.name = "consolidate"
    /\ calls = 2
    /\ op.result.threshold = 3
    /\ op.result.promoted_count = 0
    /\ op.result.total_episodic = 2
    /\ \E id \in DOMAIN op.before :
          op.before[id]["salience"] = Rat(3, 10)

(***************************************************************************)
(* C29: a batch that yields nothing to apply has no effect: if every       *)
(* update of a proposed batch is rejected by the structural checks or      *)
(* dropped as a duplicate by validate, handle_profile_updates_background   *)
(* performs no merge and no save, so the stored profile, its version and   *)
(* its history snapshots are unchanged.                                    *)
(***************************************************************************)
C29_NothingToApply ==
    [][(/\ last'.op = "handle"
        /\ validate_updates(WellFormedUpdates(last'.batch), last'.before)
               = <<>>) =>
           /\ ~last'.merged
           /\ profile' = profile
           /\ stored' = stored
           /\ history' = history]_vars

\* A batch whose only well-formed updates repeat what the profile holds
\* was handed to the handler of a user with a stored profile of version 2
\* or more.
C29_Witness ==
    /\ last.op = "handle"
    /\ last.shape = "ok"
    /\ WellFormedUpdates(last.batch) # <<>>
    /\ validate_updates(WellFormedUpdates(last.batch), last.before) = <<>>
    /\ ~last.merged
    /\ stored.version >= 2
    /\ stored = last.before

(***************************************************************************)
(* stream_response, the generator chat_with_streaming_profile_update       *)
(* returns (llm_integration.py 415-521), given the message list.  resp is  *)
(* the generator: its position, the card read at line 409, the events sent *)
(* to the client, its locals, the number of items of stream_llm_response   *)
(* it has taken, and what became of its writes.  The items are produced    *)
(* when the generator asks for them.                                       *)
(***************************************************************************)
ContentEvent(chunk) == [kind |-> "content", content |-> chunk, raw_output |-> <<>>]
CompletionEvent(raw) == [kind |-> "done", content |-> "", raw_output |-> raw]
DoneMarker == [kind |-> "[DONE]", content |-> "", raw_output |-> <<>>]

NewResponse(u, user_message, profile_card) ==
    [pc |-> "streaming", user |-> u, user_message |-> user_message,
     profile_card |-> profile_card, sent |-> <<>>, full_response |-> <<>>,
     raw_llm_output |-> <<>>, profile_updates |-> <<>>, consumed |-> 0,
     at |-> 1, exc |-> "none", log_failed |-> FALSE,
     episode_attempts |-> 0, episode_failed |-> FALSE,
     save_attempts |-> 0, save_failed |-> FALSE]

Send(r, event) == [r EXCEPT !.sent = Append(@, event)]

\* The body of the loop for one item: the final item, updates and no text,
\* is parsed and ends the loop; an item with text is sent as a content
\* event.  profile_updates is <<>> for None.
OnItem(r, item) ==
    LET taken ==
            [r EXCEPT !.consumed = @ + 1,
                      !.full_response =
                          IF item.chunk = "" THEN @ ELSE Append(@, item.chunk),
                      !.raw_llm_output = @ \o item.raw]
        parsed == json_loads(<<item.updates_json>>)
    IN  IF item.updates_json # "" /\ item.chunk = ""
        THEN [taken EXCEPT !.pc = "after",
                           !.profile_updates =
                               IF parsed.exc # "none" THEN <<NoUpdates>>
                               ELSE <<parsed.value>>]
        ELSE IF item.chunk # ""
        THEN Send(taken, ContentEvent(item.chunk))
        ELSE taken

\* The statements after the loop, in their order.
stream_response_order_UpdatesFirst ==
    <<"profile_updates", "completion", "log_message", "episode", "metrics">>

stream_response_order ==
    <<"completion", "log_message", "episode", "profile_updates", "metrics">>

Advance(r) == [r EXCEPT !.at = @ + 1]

\* except Exception of the generator: the marker is sent and the generator
\* ends.
OuterExcept(r, exc) == [Send(r, DoneMarker) EXCEPT !.pc = "finished", !.exc = exc]

\* The exception of the episode block is left to reach the generator's
\* own handler.
EpisodeExcept_Propagate(r) == OuterExcept(r, "episode")

\* except Exception of the episode block: printed, nothing else.
EpisodeExcept(r) == r

\* str.strip() of a text: the blank pieces at its ends are gone.
StripText(buffer) ==
    LET solid == {i \in DOMAIN buffer : Strip(buffer[i]) # ""}
    IN  IF solid = {} THEN <<>>
        ELSE SubSeq(buffer, CHOOSE i \in solid : \A j \in solid : i <= j,
                    CHOOSE i \in solid : \A j \in solid : j <= i)

MaxResponses == 1

RoundEvents ==
    {[content |-> "Roar", function_call |-> "none", finish_reason |-> "none"],
     [content |-> "", function_call |-> "{updates:[U]}",
      finish_reason |-> "none"],
     [content |-> "", function_call |-> "none",
      finish_reason |-> "function_call"]}

Statement(name) ==
    /\ resp.pc = "after"
    /\ resp.at <= Len(stream_response_order)
    /\ stream_response_order[resp.at] = name

\* The generator has taken every item produced so far.
Drained == resp.pc = "streaming" /\ resp.consumed = Len(stream.yielded)

\* chat_with_streaming_profile_update up to the return of the response
\* (lines 397-415, 523): the card is read, the generator made.
StartResponse(u) ==
    /\ calls < MaxResponses
    /\ resp.pc \in {"idle", "finished"}
    /\ \E outcome \in GetOutcomes :
          \E g \in {StoreGet(db, u, clock, outcome, "ok")} :
              /\ db' = g.db
              /\ clock' = g.now
              /\ resp' = NewResponse(u, ShortText, g.profile)
    /\ stream' = NoStream
    /\ calls' = calls + 1
    /\ UNCHANGED <<cardVars, used, rounds, op, contextVars, adds>>

RoundStreamStart == Drained /\ stream.pc = "idle" /\ StreamStart
RoundStreamEvent == Drained /\ StreamEventFrom(RoundEvents)
RoundStreamFails == Drained /\ StreamFails
RoundStreamEnd == Drained /\ StreamEnd

\* The loop takes the next item.
TakeItem ==
    /\ resp.pc = "streaming"
    /\ resp.consumed < Len(stream.yielded)
    /\ resp' = OnItem(resp, stream.yielded[resp.consumed + 1])
    /\ UNCHANGED <<cardVars, clock, calls, used, storeVars, contextVars,
                   stream, adds>>

\* The loop ends with the items.
LoopEnds ==
    /\ Drained
    /\ stream.pc = "done"
    /\ resp' = [resp EXCEPT !.pc = "after"]
    /\ UNCHANGED <<cardVars, clock, calls, used, storeVars, contextVars,
                   stream, adds>>

\* Lines 443-448.
SendCompletion ==
    /\ Statement("completion")
    /\ resp' = Advance(Send(resp, CompletionEvent(resp.raw_llm_output)))
    /\ UNCHANGED <<cardVars, clock, calls, used, storeVars, contextVars,
                   stream, adds>>

\* Lines 450-452: a failure of log_message goes to the generator's handler.
LogAssistant ==
    /\ Statement("log_message")
    /\ \E outcome \in {"ok", "fails"} :
          /\ Blank(resp.full_response) => outcome = "ok"
          /\ \E r \in {IF Blank(resp.full_response) \/ outcome # "ok"
                       THEN [db |-> db, now |-> clock, ok |-> TRUE]
                       ELSE log_message(db, resp.user, "assistant",
                                        StripText(resp.full_response),
                                        clock)} :
                /\ db' = r.db
                /\ clock' = r.now
          /\ resp' = IF outcome = "ok" THEN Advance(resp)
                     ELSE OuterExcept([resp EXCEPT !.log_failed = TRUE],
                                      "log_message")
    /\ UNCHANGED <<cardVars, calls, used, rounds, op, contextVars, stream,
                   adds>>

\* Lines 454-484.
StoreEpisode ==
    /\ Statement("episode")
    /\ \E recentOutcome \in {"ok", "get_fails"},
          storeOutcome \in {"ok", "add_fails"} :
          \E r \in {store_conversation_round(index, resp.user,
                                             resp.user_message,
                                             StripText(resp.full_response),
                                             clock, recentOutcome,
                                             storeOutcome)} :
              /\ index' = r.index
              /\ clock' = r.now
              /\ resp' =
                    Advance(IF r.ok
                            THEN [resp EXCEPT !.episode_attempts = @ + 1]
                            ELSE EpisodeExcept(
                                     [resp EXCEPT !.episode_attempts = @ + 1,
                                                  !.episode_failed = TRUE]))
    /\ UNCHANGED <<cardVars, calls, used, storeVars, ctx, stream, adds>>

\* Lines 486-491.
HandleUpdates ==
    /\ Statement("profile_updates")
    /\ IF resp.profile_updates # <<>>
          /\ resp.profile_updates[1]["updates"] # <<>>
       THEN \E outcome \in SaveOutcomes :
               \E h \in {StoreHandle(db, resp.user, resp.profile_card, "ok",
                                     resp.profile_updates[1]["updates"],
                                     clock, outcome)} :
                   /\ db' = h.db
                   /\ clock' = h.now
                   /\ resp' = Advance([resp EXCEPT
                                          !.save_attempts = @ + 1,
                                          !.save_failed = ~h.ok])
       ELSE /\ resp' = Advance(resp)
            /\ UNCHANGED <<db, clock>>
    /\ UNCHANGED <<cardVars, calls, used, rounds, op, contextVars, stream,
                   adds>>

\* Lines 493-512.
RecordMetrics ==
    /\ Statement("metrics")
    /\ resp' = [resp EXCEPT !.pc = "finished"]
    /\ UNCHANGED <<cardVars, clock, calls, used, storeVars, contextVars,
                   stream, adds>>

NextRound ==
    \/ \E u \in Users : StartResponse(u)
    \/ RoundStreamStart
    \/ RoundStreamEvent
    \/ RoundStreamFails
    \/ RoundStreamEnd
    \/ TakeItem
    \/ LoopEnds
    \/ SendCompletion
    \/ LogAssistant
    \/ StoreEpisode
    \/ HandleUpdates
    \/ RecordMetrics

SpecRound == Init /\ [][NextRound]_vars

\* The events the items of stream_llm_response call for: a content event
\* for every item with text, then the completion event with the raw
\* output of all items.
RECURSIVE RawOf(_)
RawOf(items) ==
    IF items = <<>> THEN <<>> ELSE items[1].raw \o RawOf(Tail(items))

ExpectedEvents(items) ==
    LET texts == SelectSeq(items, LAMBDA item : item.chunk # "")
    IN  [i \in 1..Len(texts) |-> ContentEvent(texts[i].chunk)]
            \o <<CompletionEvent(RawOf(items))>>

C22_WriteFailuresInvisible ==
    (resp.pc = "finished" /\ ~resp.log_failed) =>
        /\ resp.exc = "none"
        /\ resp.sent = ExpectedEvents(stream.yielded)
        /\ resp.episode_attempts = 1
        /\ resp.save_attempts <= 1

\* A round in which the episode could not be stored and the profile could
\* not be saved sent its text and its completion event.
C22_Witness ==
    /\ resp.pc = "finished"
    /\ resp.episode_failed
    /\ resp.save_failed
    /\ resp.save_attempts = 1
    /\ Len(resp.sent) >= 2
    /\ resp.sent[1].kind = "content"
    /\ resp.sent[Len(resp.sent)].kind = "done"

====
